---- MODULE Spec2Model ----
(***************************************************************************)
(* Workflow simulator (src/src/components/WorkflowSimulator.jsx) and the   *)
(* expression engine it evaluates conditions with                          *)
(* (src/src/utils/expressionEngine.js).                                    *)
(*                                                                         *)
(* JavaScript strings are TLA+ strings; positions are 0-based in the       *)
(* helpers that carry a JavaScript name (Substring, IndexOf, ...).         *)
(* JavaScript values are tagged records, see the section "Values".         *)
(***************************************************************************)
EXTENDS Integers, Sequences, FiniteSets, TLC

(***************************************************************************)
(* Values                                                                  *)
(***************************************************************************)
Null == [t |-> "null"]

Undef == [t |-> "undef"]

NaN == [t |-> "nan"]

Bool(b) == [t |-> "bool", v |-> b]

Num(n) == [t |-> "num", v |-> n]

Str(s) == [t |-> "str", v |-> s]

List(l) == [t |-> "list", v |-> l]

Map(m) == [t |-> "map", v |-> m]

\* new Date(): an object that JSON.stringify turns into a string
DateObj == [t |-> "date"]

EmptyMap == Map(<<>>)

IsNullish(x) == x.t \in {"null", "undef"}

\* the keys of a JavaScript object, and the object with one key (re)assigned
Keys(m) == DOMAIN m.v

Put(m, k, x) == Map([q \in (DOMAIN m.v) \cup {k} |-> IF q = k THEN x ELSE m.v[q]])

(***************************************************************************)
(* String primitives of JavaScript                                         *)
(***************************************************************************)
Min(a, b) == IF a < b THEN a ELSE b

Max(a, b) == IF a > b THEN a ELSE b

\* str[i], 0-based; "" stands for undefined (out of range)
CharAt(s, i) == IF i >= 0 /\ i < Len(s) THEN SubSeq(s, i + 1, i + 1) ELSE ""

\* String.prototype.substring(a, b)
Substring(s, a, b) ==
    LET ca == Max(0, Min(a, Len(s)))
        cb == Max(0, Min(b, Len(s)))
    IN  SubSeq(s, Min(ca, cb) + 1, Max(ca, cb))

SubstringFrom(s, a) == Substring(s, a, Len(s))

StartsWith(s, p) == Len(p) <= Len(s) /\ SubSeq(s, 1, Len(p)) = p

EndsWith(s, p) == Len(p) <= Len(s) /\ SubSeq(s, Len(s) - Len(p) + 1, Len(s)) = p

\* String.prototype.indexOf / lastIndexOf: -1 when absent
IndexOf(s, p) ==
    LET hits == {i \in 0..(Len(s) - Len(p)) : SubSeq(s, i + 1, i + Len(p)) = p}
    IN  IF hits = {} THEN -1 ELSE CHOOSE i \in hits : \A j \in hits : i <= j

LastIndexOf(s, p) ==
    LET hits == {i \in 0..(Len(s) - Len(p)) : SubSeq(s, i + 1, i + Len(p)) = p}
    IN  IF hits = {} THEN -1 ELSE CHOOSE i \in hits : \A j \in hits : i >= j

Includes(s, p) == IndexOf(s, p) >= 0

IsSpace(c) == c \in {" ", "\n", "\t", "\r"}

RECURSIVE TrimStart(_)
TrimStart(s) == IF Len(s) > 0 /\ IsSpace(CharAt(s, 0)) THEN TrimStart(SubstringFrom(s, 1)) ELSE s

RECURSIVE TrimEnd(_)
TrimEnd(s) ==
    IF Len(s) > 0 /\ IsSpace(CharAt(s, Len(s) - 1)) THEN TrimEnd(Substring(s, 0, Len(s) - 1)) ELSE s

Trim(s) == TrimEnd(TrimStart(s))

\* String.prototype.replace(p, r) with a string pattern: the first occurrence only
ReplaceFirst(s, p, r) ==
    LET i == IndexOf(s, p)
    IN  IF i < 0 THEN s ELSE Substring(s, 0, i) \o r \o SubstringFrom(s, i + Len(p))

\* String.prototype.split(sep), sep a non-empty string
RECURSIVE StrSplit(_, _)
StrSplit(s, sep) ==
    LET i == IndexOf(s, sep)
    IN  IF i < 0 THEN <<s>>
        ELSE <<Substring(s, 0, i)>> \o StrSplit(SubstringFrom(s, i + Len(sep)), sep)

\* Array.prototype.join(sep) over a sequence of strings
RECURSIVE StrJoin(_, _)
StrJoin(l, sep) ==
    IF Len(l) = 0 THEN ""
    ELSE IF Len(l) = 1 THEN l[1]
    ELSE l[1] \o sep \o StrJoin(Tail(l), sep)

(***************************************************************************)
(* Conversions of JavaScript                                               *)
(***************************************************************************)
AsciiLow == " !\"#$%&'()*+,-./0123456789:;<=>?@ABCDEFGHIJKLMNOPQRSTUVWXYZ[\\]^_"

AsciiHigh == "abcdefghijklmnopqrstuvwxyz{|}~"

\* the UTF-16 code unit of a one-character string (printable ASCII)
CharCode(c) == IF IndexOf(AsciiLow, c) >= 0 THEN 32 + IndexOf(AsciiLow, c) ELSE 97 + IndexOf(AsciiHigh, c)

IsDigit(c) == Len(c) = 1 /\ IndexOf("0123456789", c) >= 0

RECURSIVE AllDigits(_)
AllDigits(s) == Len(s) = 0 \/ (IsDigit(CharAt(s, 0)) /\ AllDigits(SubstringFrom(s, 1)))

RECURSIVE DigitsValue(_)
DigitsValue(s) ==
    IF Len(s) = 0 THEN 0
    ELSE 10 * DigitsValue(Substring(s, 0, Len(s) - 1)) + IndexOf("0123456789", CharAt(s, Len(s) - 1))

RECURSIVE NatToStr(_)
NatToStr(n) ==
    IF n < 10 THEN CharAt("0123456789", n)
    ELSE NatToStr(n \div 10) \o CharAt("0123456789", n % 10)

NumToStr(n) == IF n < 0 THEN "-" \o NatToStr(0 - n) ELSE NatToStr(n)

\* Number(s) of a string: decimal integers (the only numerals of the model's
\* texts), the empty string is 0, anything else is NaN
StrToNum(s) ==
    LET x == Trim(s)
        body == IF StartsWith(x, "-") \/ StartsWith(x, "+") THEN SubstringFrom(x, 1) ELSE x
    IN  IF x = "" THEN Num(0)
        ELSE IF Len(body) > 0 /\ AllDigits(body)
             THEN Num(IF StartsWith(x, "-") THEN 0 - DigitsValue(body) ELSE DigitsValue(body))
             ELSE NaN

\* isNaN(s) of a string
IsNaNStr(s) == StrToNum(s) = NaN

\* parseInt(s): the leading decimal integer of the trimmed text, NaN when none
RECURSIVE LeadingDigits(_)
LeadingDigits(s) ==
    IF Len(s) > 0 /\ IsDigit(CharAt(s, 0)) THEN CharAt(s, 0) \o LeadingDigits(SubstringFrom(s, 1)) ELSE ""

ParseInt(s) ==
    LET x == Trim(s)
        neg == StartsWith(x, "-")
        body == IF neg \/ StartsWith(x, "+") THEN SubstringFrom(x, 1) ELSE x
        d == LeadingDigits(body)
    IN  IF d = "" THEN NaN ELSE Num(IF neg THEN 0 - DigitsValue(d) ELSE DigitsValue(d))

\* truthiness
ToBool(x) ==
    CASE x.t = "bool" -> x.v
      [] x.t = "num" -> x.v # 0
      [] x.t = "str" -> x.v # ""
      [] x.t \in {"null", "undef", "nan"} -> FALSE
      [] OTHER -> TRUE

\* String(x)
RECURSIVE ToStr(_)
ToStr(x) ==
    CASE x.t = "str" -> x.v
      [] x.t = "num" -> NumToStr(x.v)
      [] x.t = "nan" -> "NaN"
      [] x.t = "bool" -> (IF x.v THEN "true" ELSE "false")
      [] x.t = "null" -> "null"
      [] x.t = "undef" -> "undefined"
      [] x.t = "list" ->
            StrJoin([i \in 1..Len(x.v) |-> IF IsNullish(x.v[i]) THEN "" ELSE ToStr(x.v[i])], ",")
      [] x.t = "map" -> "[object Object]"
      [] x.t = "native" ->
            "function " \o (IF x.v = "constructor" THEN x.of ELSE x.v) \o "() { [native code] }"
      [] OTHER -> "[date]"

\* ToPrimitive of the relational and equality operators
ToPrim(x) == IF x.t \in {"list", "map", "native"} THEN Str(ToStr(x)) ELSE x

\* ToNumber
ToNum(x) ==
    LET p == ToPrim(x)
    IN  CASE p.t = "num" -> p
          [] p.t = "bool" -> Num(IF p.v THEN 1 ELSE 0)
          [] p.t = "null" -> Num(0)
          [] p.t = "str" -> StrToNum(p.v)
          [] OTHER -> NaN

RECURSIVE StrLess(_, _)
StrLess(a, b) ==
    IF Len(b) = 0 THEN FALSE
    ELSE IF Len(a) = 0 THEN TRUE
    ELSE IF CharAt(a, 0) = CharAt(b, 0) THEN StrLess(SubstringFrom(a, 1), SubstringFrom(b, 1))
    ELSE CharCode(CharAt(a, 0)) < CharCode(CharAt(b, 0))

\* a < b of JavaScript: "lt", "ge", or "nan" when an operand converts to NaN
JsLess(a, b) ==
    LET pa == ToPrim(a)
        pb == ToPrim(b)
    IN  IF pa.t = "str" /\ pb.t = "str"
        THEN (IF StrLess(pa.v, pb.v) THEN "lt" ELSE "ge")
        ELSE LET na == ToNum(pa)
                 nb == ToNum(pb)
             IN  IF na = NaN \/ nb = NaN THEN "nan"
                 ELSE IF na.v < nb.v THEN "lt" ELSE "ge"

JsLt(a, b) == JsLess(a, b) = "lt"

\* a variant of JsGt with the operands the other way round
JsGtSwapped(a, b) == JsLess(a, b) = "lt"

JsGt(a, b) == JsLess(b, a) = "lt"

JsLe(a, b) == JsLess(b, a) = "ge"

JsGe(a, b) == JsLess(a, b) = "ge"

\* a == b of JavaScript.  Two objects are equal when they are the same object;
\* the values of the model carry no identity, so two object operands compare
\* by value (an object of a context is stored at one path only).
RECURSIVE LooseEq(_, _)
LooseEq(a, b) ==
    CASE a.t = "nan" \/ b.t = "nan" -> FALSE
      [] IsNullish(a) \/ IsNullish(b) -> IsNullish(a) /\ IsNullish(b)
      [] a.t = b.t -> a = b
      [] a.t = "bool" -> LooseEq(ToNum(a), b)
      [] b.t = "bool" -> LooseEq(a, ToNum(b))
      [] a.t \in {"list", "map", "native"} -> LooseEq(ToPrim(a), b)
      [] b.t \in {"list", "map", "native"} -> LooseEq(a, ToPrim(b))
      [] a.t = "num" /\ b.t = "str" -> ToNum(b) = a
      [] a.t = "str" /\ b.t = "num" -> ToNum(a) = b
      [] OTHER -> FALSE

\* a TypeError on its way to the catch of evaluateExpression
Thrown == [t |-> "thrown"]

\* String(x), and the conversion of x to a primitive by an operator, raise a
\* TypeError: x is an object with a member toString of its own, which is data
\* and no function (or a built-in function that takes no plain object), or
\* an array with such an element
RECURSIVE Raises(_)
Raises(x) ==
    CASE x.t = "map" ->
            /\ "toString" \in DOMAIN x.v
            /\ ~(x.v["toString"].t = "native" /\ x.v["toString"].of \in {"Object", "Array"})
      [] x.t = "list" -> \E i \in 1..Len(x.v) : ~IsNullish(x.v[i]) /\ Raises(x.v[i])
      [] OTHER -> FALSE

\* a == b converts an object operand to a primitive when the other operand
\* is a number, a string or a boolean
EqualityRaises(a, b) ==
    \/ Raises(a) /\ b.t \in {"num", "nan", "str", "bool"}
    \/ Raises(b) /\ a.t \in {"num", "nan", "str", "bool"}

\* a || b and a && b of JavaScript yield one of their operands
JsOr(a, b) == IF ToBool(a) THEN a ELSE b

JsAnd(a, b) == IF ToBool(a) THEN b ELSE a

(***************************************************************************)
(* expressionEngine.js: splitByTopLevel and resolveVariable                *)
(***************************************************************************)
\* the loop of splitByTopLevel from position i on; st holds the loop's locals
RECURSIVE SplitLoop(_, _, _, _)
SplitLoop(str, delimiter, i, st) ==
    IF i >= Len(str) THEN Append(st.parts, st.current)
    ELSE
      LET char == CharAt(str, i)
          quote == IF (char = "\"" \/ char = "'") /\ CharAt(str, i - 1) # "\\"
                   THEN (IF st.quote = char THEN ""
                         ELSE IF st.quote = "" THEN char ELSE st.quote)
                   ELSE st.quote
          par == IF quote = "" THEN (IF char = "(" THEN st.par + 1
                                     ELSE IF char = ")" THEN st.par - 1 ELSE st.par)
                 ELSE st.par
          brace == IF quote = "" THEN (IF char = "{" THEN st.brace + 1
                                       ELSE IF char = "}" THEN st.brace - 1 ELSE st.brace)
                   ELSE st.brace
          brack == IF quote = "" THEN (IF char = "[" THEN st.brack + 1
                                       ELSE IF char = "]" THEN st.brack - 1 ELSE st.brack)
                   ELSE st.brack
          isDelimiter == /\ quote = ""
                         /\ par = 0
                         /\ brace = 0
                         /\ brack = 0
                         /\ Substring(str, i, i + Len(delimiter)) = delimiter
      IN  IF isDelimiter
          THEN SplitLoop(str, delimiter, i + Len(delimiter),
                         [parts |-> Append(st.parts, st.current), current |-> "",
                          par |-> par, brace |-> brace, brack |-> brack, quote |-> quote])
          ELSE SplitLoop(str, delimiter, i + 1,
                         [parts |-> st.parts, current |-> st.current \o char,
                          par |-> par, brace |-> brace, brack |-> brack, quote |-> quote])

splitByTopLevel(str, delimiter) ==
    LET raw == SplitLoop(str, delimiter, 0,
                         [parts |-> <<>>, current |-> "", par |-> 0, brace |-> 0,
                          brack |-> 0, quote |-> ""])
    IN  [i \in 1..Len(raw) |-> Trim(raw[i])]

\* current[part] of JavaScript for a value that is neither null nor undefined
\* (inherited members such as methods are not part of the model's key sets)
\* the members that every value inherits from Object.prototype, all of them
\* functions (the texts of the model name no other inherited member)
ObjectMembers ==
    {"constructor", "toString", "valueOf", "hasOwnProperty", "isPrototypeOf",
     "propertyIsEnumerable", "toLocaleString"}

\* the prototype of a value
PrototypeOf(x) ==
    CASE x.t = "list" -> "Array"
      [] x.t = "str" -> "String"
      [] x.t \in {"num", "nan"} -> "Number"
      [] x.t = "bool" -> "Boolean"
      [] x.t = "date" -> "Date"
      [] x.t = "native" -> "Function"
      [] OTHER -> "Object"

\* the prototypes that have a member name of their own
DefinedBy(name) ==
    CASE name \in {"constructor", "toString"} ->
            {"Object", "Array", "String", "Number", "Boolean", "Date", "Function"}
      [] name = "valueOf" -> {"Object", "String", "Number", "Boolean", "Date"}
      [] name = "toLocaleString" -> {"Object", "Array", "Number", "Date"}
      [] OTHER -> {"Object"}

\* current[part] for a part that current has no member of its own for: the
\* built-in function found on the chain of prototypes, or undefined
Inherited(current, part) ==
    IF part \notin ObjectMembers THEN Undef
    ELSE [t |-> "native", v |-> part,
          of |-> IF PrototypeOf(current) \in DefinedBy(part) THEN PrototypeOf(current)
                                                             ELSE "Object"]

GetProp(current, part) ==
    CASE current.t = "map" ->
            (IF part \in DOMAIN current.v THEN current.v[part] ELSE Inherited(current, part))
      [] current.t = "list" ->
            (IF part = "length" THEN Num(Len(current.v))
             ELSE IF AllDigits(part) /\ part # "" /\ NatToStr(DigitsValue(part)) = part
                     /\ DigitsValue(part) < Len(current.v)
                  THEN current.v[DigitsValue(part) + 1]
                  ELSE Inherited(current, part))
      [] current.t = "str" ->
            (IF part = "length" THEN Num(Len(current.v))
             ELSE IF AllDigits(part) /\ part # "" /\ NatToStr(DigitsValue(part)) = part
                     /\ DigitsValue(part) < Len(current.v)
                  THEN Str(CharAt(current.v, DigitsValue(part)))
                  ELSE Inherited(current, part))
      [] OTHER -> Inherited(current, part)

\* current[parseInt(part)] for an array
GetIndex(current, part) ==
    LET n == ParseInt(part)
    IN  IF n # NaN /\ n.v >= 0 /\ n.v < Len(current.v) THEN current.v[n.v + 1] ELSE Undef

RECURSIVE ResolveLoop(_, _)
ResolveLoop(parts, current) ==
    IF Len(parts) = 0 THEN current
    ELSE IF IsNullish(current) THEN Null
    ELSE IF current.t = "list" /\ ~IsNaNStr(parts[1])
         THEN ResolveLoop(Tail(parts), GetIndex(current, parts[1]))
         ELSE ResolveLoop(Tail(parts), GetProp(current, parts[1]))

\* context is the JavaScript object the path starts from, as a Map value
resolveVariable(path, context) == ResolveLoop(StrSplit(path, "."), context)


(***************************************************************************)
(* expressionEngine.js: the evaluator.  context is a Map value.            *)
(***************************************************************************)
\* Array.prototype.join(sep) over a list of values
JoinList(l, sep) ==
    StrJoin([i \in 1..Len(l) |-> IF IsNullish(l[i]) THEN "" ELSE ToStr(l[i])], sep)

\* a variant of SplitStr that leaves out the empty pieces
SplitStrSkippingEmpty(str, sep) ==
    IF sep = "" THEN [i \in 1..Len(str) |-> CharAt(str, i - 1)]
    ELSE SelectSeq(StrSplit(str, sep), LAMBDA piece : piece # "")

\* String.prototype.split(sep), the empty separator splitting into characters
SplitStr(str, sep) ==
    IF sep = "" THEN [i \in 1..Len(str) |-> CharAt(str, i - 1)] ELSE StrSplit(str, sep)

IsQuoted(x) ==
    \/ StartsWith(x, "\"") /\ EndsWith(x, "\"")
    \/ StartsWith(x, "'") /\ EndsWith(x, "'")

\* the separator argument of ?join(...) and ?split(...)
SeparatorOf(content) == IF IsQuoted(content) THEN Substring(content, 1, Len(content) - 1) ELSE ","

RECURSIVE evaluateExpression(_, _)
RECURSIVE evalLogical(_, _)
RECURSIVE evalAnd(_, _)
RECURSIVE evalTernary(_, _)
RECURSIVE evalEquality(_, _)
RECURSIVE evalComparison(_, _)
RECURSIVE evalValue(_, _)
RECURSIVE ObjectLiteral(_, _, _)
RECURSIVE BuiltinChain(_, _, _, _)
RECURSIVE ConcatFold(_, _, _)

\* evalValue: the loop over the properties of an object literal
ObjectLiteral(properties, obj, context) ==
    IF Len(properties) = 0 THEN obj
    ELSE
      LET prop == properties[1]
          colonIdx == IndexOf(prop, ":")
          keyStr == Trim(Substring(prop, 0, colonIdx))
          valStr == Trim(SubstringFrom(prop, colonIdx + 1))
          key == IF IsQuoted(keyStr) THEN Substring(keyStr, 1, Len(keyStr) - 1) ELSE keyStr
      IN  IF Includes(prop, ":")
          THEN ObjectLiteral(Tail(properties), Put(obj, key, evaluateExpression(Str(valStr), context)), context)
          ELSE ObjectLiteral(Tail(properties), obj, context)

\* evalValue: one stage of a built-in chain applied to val
BuiltinStage(part, val, context) ==
    IF val = Thrown THEN Thrown
    ELSE IF part = "string"
         THEN (IF ~ToBool(val) THEN Str("") ELSE IF Raises(val) THEN Thrown ELSE Str(ToStr(val)))
    ELSE IF part = "size"
         THEN (CASE val.t = "list" -> Num(Len(val.v))
                 [] val.t = "map" -> Num(Cardinality(DOMAIN val.v))
                 [] val.t = "date" -> Num(0)
                 [] val.t = "str" -> Num(Len(val.v))
                 [] OTHER -> Num(0))
    ELSE IF part = "has_content"
         THEN (CASE IsNullish(val) -> Bool(FALSE)
                 [] val.t \in {"str", "list"} -> Bool(Len(val.v) > 0)
                 [] val.t = "map" -> Bool(DOMAIN val.v # {})
                 [] val.t = "date" -> Bool(FALSE)
                 [] OTHER -> Bool(TRUE))
    ELSE IF StartsWith(part, "join(") /\ EndsWith(part, ")")
         THEN (IF val.t # "list" THEN val
               ELSE IF Raises(val) THEN Thrown
               ELSE Str(JoinList(val.v, SeparatorOf(Substring(part, 5, Len(part) - 1)))))
    ELSE IF StartsWith(part, "split(") /\ EndsWith(part, ")")
         THEN (IF val.t = "str"
               THEN LET pieces == SplitStr(val.v, SeparatorOf(Substring(part, 6, Len(part) - 1)))
                    IN  List([i \in 1..Len(pieces) |-> Str(pieces[i])])
               ELSE val)
    ELSE IF StartsWith(part, "map(") /\ EndsWith(part, ")")
         THEN LET argsContent == Substring(part, 4, Len(part) - 1)
                  pieces == StrSplit(argsContent, "->")
                  varName == Trim(pieces[1])
                  body == Trim(pieces[2])
              IN  IF val.t = "list" /\ Includes(argsContent, "->")
                  THEN List([i \in 1..Len(val.v) |->
                                evaluateExpression(Str(body), Put(context, varName, val.v[i]))])
                  ELSE val
    ELSE val

\* the context of the caller after the stage part has run on val, with the
\* variable of ?map bound in the context itself
AmbientAfterBinding(part, val, context) ==
    IF StartsWith(part, "map(") /\ EndsWith(part, ")") /\ val.t = "list"
       /\ Includes(part, "->") /\ Len(val.v) > 0
    THEN Put(context, Trim(StrSplit(Substring(part, 4, Len(part) - 1), "->")[1]),
             val.v[Len(val.v)])
    ELSE context

\* the context of the caller after the stage part has run on val: no stage
\* assigns to it, and ?map binds its variable in mappedContext, a new object
\* made of the members of the context ({ ...context, [varName]: item })
AmbientAfter(part, val, context) == context

BuiltinChain(parts, i, val, context) ==
    IF i > Len(parts) THEN val
    ELSE BuiltinChain(parts, i + 1, BuiltinStage(Trim(parts[i]), val, context),
                      AmbientAfter(Trim(parts[i]), val, context))

\* the context as the stages of a chain leave it
RECURSIVE AmbientChain(_, _, _, _)
AmbientChain(parts, i, val, context) ==
    IF i > Len(parts) \/ val = Thrown THEN context
    ELSE AmbientChain(parts, i + 1, BuiltinStage(Trim(parts[i]), val, context),
                      AmbientAfter(Trim(parts[i]), val, context))

\* acc + (val === null || val === undefined ? '' : String(val)), acc a Str
ConcatStep(acc, val) ==
    IF acc = Thrown \/ val = Thrown THEN Thrown
    ELSE IF IsNullish(val) THEN acc
    ELSE IF Raises(val) THEN Thrown
    ELSE Str(acc.v \o ToStr(val))

\* evalValue: the fold of a string concatenation
ConcatFold(parts, acc, context) ==
    IF Len(parts) = 0 THEN acc
    ELSE ConcatFold(Tail(parts), ConcatStep(acc, evalValue(parts[1], context)), context)

\* !val
NotOf(val) == IF val = Thrown THEN Thrown ELSE Bool(~ToBool(val))

\* evalValue on the trimmed text expr; concat and chain are expr split at its
\* top-level + and ? signs
ValueOf(expr, concat, chain, context) ==
    IF StartsWith(expr, "(") /\ EndsWith(expr, ")")
    THEN evalLogical(Substring(expr, 1, Len(expr) - 1), context)
    ELSE IF StartsWith(expr, "{") /\ EndsWith(expr, "}")
    THEN ObjectLiteral(splitByTopLevel(Substring(expr, 1, Len(expr) - 1), ","), EmptyMap, context)
    ELSE IF Includes(expr, "+") /\ Len(concat) > 1
    THEN ConcatFold(concat, Str(""), context)
    ELSE IF StartsWith(expr, "!")
    THEN NotOf(evalValue(SubstringFrom(expr, 1), context))
    ELSE IF EndsWith(expr, "??")
    THEN Bool(~IsNullish(resolveVariable(Trim(ReplaceFirst(expr, "??", "")), context)))
    ELSE IF Includes(expr, "?") /\ Len(chain) > 1
    THEN BuiltinChain(chain, 2, evaluateExpression(Str(chain[1]), context), context)
    ELSE IF IsQuoted(expr)
    THEN Str(Substring(expr, 1, Len(expr) - 1))
    ELSE IF ~IsNaNStr(expr) /\ expr # ""
    THEN StrToNum(expr)
    ELSE IF expr = "true" THEN Bool(TRUE)
    ELSE IF expr = "false" THEN Bool(FALSE)
    ELSE IF expr = "null" THEN Null
    ELSE resolveVariable(expr, context)

ValueOfTrimmed(expr, context) ==
    ValueOf(expr, splitByTopLevel(expr, "+"), splitByTopLevel(expr, "?"), context)

evalValue(rawExpr, context) == ValueOfTrimmed(Trim(rawExpr), context)

\* const [left, right] = parts
FirstTwo(parts) == <<parts[1], parts[2]>>

\* the operator expr is split at: the first of ops that expr holds and that
\* splits it into more than one part, "" when there is none
RECURSIVE OperatorOf(_, _)
OperatorOf(expr, ops) ==
    IF Len(ops) = 0 THEN ""
    ELSE IF Includes(expr, ops[1]) /\ Len(splitByTopLevel(expr, ops[1])) > 1 THEN ops[1]
    ELSE OperatorOf(expr, Tail(ops))

\* the operands of op in expr, expr itself when there is no operator
OperandsOf(op, expr) == IF op = "" THEN <<expr>> ELSE FirstTwo(splitByTopLevel(expr, op))

\* evalComparison: the operands evaluated
ValuesOf(operands, context) == [i \in 1..Len(operands) |-> evalValue(operands[i], context)]

\* evalComparison: the values of the operands compared
ComparisonResult(op, vals) ==
    CASE op # "" /\ (\/ vals[1] = Thrown
                     \/ vals[2] = Thrown
                     \/ Raises(vals[1])
                     \/ Raises(vals[2])) -> Thrown
      [] op = ">=" -> Bool(JsGe(vals[1], vals[2]))
      [] op = "<=" -> Bool(JsLe(vals[1], vals[2]))
      [] op = ">" -> Bool(JsGt(vals[1], vals[2]))
      [] op = "<" -> Bool(JsLt(vals[1], vals[2]))
      [] OTHER -> vals[1]

ComparisonAt(op, expr, context) == ComparisonResult(op, ValuesOf(OperandsOf(op, expr), context))

\* >= and <= are looked for first as they contain > and <
evalComparison(expr, context) ==
    ComparisonAt(OperatorOf(expr, <<">=", "<=", ">", "<">>), expr, context)

\* evalEquality: the operands evaluated
ComparisonsOf(operands, context) ==
    [i \in 1..Len(operands) |-> evalComparison(operands[i], context)]

\* evalEquality: the values of the operands compared
EqualityResult(op, vals) ==
    CASE op # "" /\ (\/ vals[1] = Thrown
                     \/ vals[2] = Thrown
                     \/ EqualityRaises(vals[1], vals[2])) -> Thrown
      [] op = "==" -> Bool(LooseEq(vals[1], vals[2]))
      [] op = "!=" -> Bool(~LooseEq(vals[1], vals[2]))
      [] OTHER -> vals[1]

EqualityAt(op, expr, context) == EqualityResult(op, ComparisonsOf(OperandsOf(op, expr), context))

evalEquality(expr, context) == EqualityAt(OperatorOf(expr, <<"==", "!=">>), expr, context)

\* a variant of TernaryOf that evaluates both arguments
TernaryOfEager(condition, args, context) ==
    IF \/ condition = Thrown
       \/ evalTernary(args[1], context) = Thrown
       \/ evalTernary(args[2], context) = Thrown
    THEN Thrown
    ELSE IF ToBool(condition) THEN evalTernary(args[1], context)
    ELSE evalTernary(args[2], context)

\* condition ? evalTernary(args[0]) : evalTernary(args[1])
TernaryOf(condition, args, context) ==
    IF condition = Thrown THEN Thrown
    ELSE IF ToBool(condition) THEN evalTernary(args[1], context)
    ELSE evalTernary(args[2], context)

evalTernary(expr, context) ==
    LET thenIndex == LastIndexOf(expr, "?then(")
        suffix == SubstringFrom(expr, thenIndex)
        content == Substring(suffix, 6, Len(suffix) - 1)
        args == splitByTopLevel(content, ",")
        conditionPart == Trim(Substring(expr, 0, thenIndex))
    IN  IF Includes(expr, "?then") /\ thenIndex > 0 /\ EndsWith(suffix, ")") /\ Len(args) = 2
        THEN TernaryOf(evalLogical(conditionPart, context), args, context)
        ELSE evalEquality(expr, context)

\* the parts a reduce runs over, expr itself when it does not split
PartsOrSelf(parts, expr) == IF Len(parts) > 1 THEN parts ELSE <<expr>>

\* index === 0 ? val : (acc && val), for the i-th operand
AndStep(i, acc, val) ==
    IF acc = Thrown \/ val = Thrown THEN Thrown ELSE IF i = 1 THEN val ELSE JsAnd(acc, val)

\* parts.reduce of evalAnd from operand i on; for an expr that does not split
\* it yields evalTernary(expr)
RECURSIVE AndFold(_, _, _, _)
AndFold(parts, i, acc, context) ==
    IF i > Len(parts) THEN acc
    ELSE AndFold(parts, i + 1, AndStep(i, acc, evalTernary(parts[i], context)), context)

evalAnd(expr, context) ==
    AndFold(PartsOrSelf(splitByTopLevel(expr, "&&"), expr), 1, Bool(TRUE), context)

\* a variant of OrStep that leaves an operand after a truthy one unevaluated
OrStepShortCircuit(i, acc, val) ==
    IF i = 1 THEN val
    ELSE IF acc = Thrown THEN Thrown
    ELSE IF ToBool(acc) THEN acc
    ELSE val

\* index === 0 ? val : (acc || val), for the i-th operand
OrStep(i, acc, val) ==
    IF acc = Thrown \/ val = Thrown THEN Thrown ELSE IF i = 1 THEN val ELSE JsOr(acc, val)

\* parts.reduce of evalLogical from operand i on; for an expr that does not
\* split it yields evalAnd(expr)
RECURSIVE OrFold(_, _, _, _)
OrFold(parts, i, acc, context) ==
    IF i > Len(parts) THEN acc
    ELSE OrFold(parts, i + 1, OrStep(i, acc, evalAnd(parts[i], context)), context)

evalLogical(expr, context) ==
    OrFold(PartsOrSelf(splitByTopLevel(expr, "||"), expr), 1, Bool(FALSE), context)

\* a variant of Caught without the catch
Uncaught(val) == val

\* try { return ... } catch (e) { return null }
Caught(val) == IF val = Thrown THEN Null ELSE val

\* the text without its wrapper ${...}
Unwrapped(text) ==
    LET trimmed == Trim(text)
    IN  IF StartsWith(trimmed, "${") /\ EndsWith(trimmed, "}")
        THEN Substring(trimmed, 2, Len(trimmed) - 1)
        ELSE trimmed

\* expression is a value: a Str for an expression text
evaluateExpression(expression, context) ==
    IF ~ToBool(expression) THEN Null
    ELSE IF expression.t # "str" THEN expression
    ELSE Caught(evalLogical(Unwrapped(expression.v), context))

\* the context after the stages of the chain parts
AfterChain(parts, context) ==
    IF Len(parts) > 1
    THEN AmbientChain(parts, 2, evaluateExpression(Str(parts[1]), context), context)
    ELSE context

\* the object context after evaluateExpression(expression, context) has
\* returned: the evaluator assigns to objects it has made itself (obj of an
\* object literal, mappedContext) and to nothing else
ContextAfter(expression, context) ==
    IF ~ToBool(expression) \/ expression.t # "str" THEN context
    ELSE AfterChain(splitByTopLevel(Unwrapped(expression.v), "?"), context)


(***************************************************************************)
(* Workflow documents                                                      *)
(***************************************************************************)
Field(name, type, optional) ==
    [name |-> name, type |-> type, attributes |-> [optional |-> optional]]

UserInteraction(id, fields) == [type |-> "user_interaction", id |-> id, fields |-> fields]

ApiCall(id, api_name) ==
    [type |-> "api_call", id |-> id, api_name |-> api_name, response_var |-> api_name]

Decision(id, expression, if_block, else_block) ==
    [type |-> "decision", id |-> id, expression |-> expression,
     if_block |-> if_block, else_block |-> else_block]

WhileLoop(id, expression, actions) ==
    [type |-> "while_loop", id |-> id, expression |-> expression, actions |-> actions]

DoWhile(id, expression, actions) ==
    [type |-> "do_while", id |-> id, expression |-> expression, actions |-> actions]

\* a localized text: { "en-US": text }
Localized(text) == Map([k \in {"en-US"} |-> Str(text)])

\* the scenario of the specification: a budget question, then a search when
\* the budget is above 100
WfScenario ==
    <<UserInteraction("ask", <<Field("budget", "numeric", FALSE)>>),
      Decision("rich", Localized("replies.budget > 100"), <<ApiCall("call", "search")>>, <<>>)>>

\* a decision with an empty if_block and an interactive else_block
WfElse ==
    <<UserInteraction("ask", <<Field("budget", "numeric", FALSE)>>),
      Decision("rich", Str("replies.budget > 100"), <<>>,
               <<UserInteraction("why", <<Field("note", "text", TRUE)>>)>>),
      ApiCall("call", "Look Up")>>

\* a while loop that asks again as long as the answer is above 100
WfWhile ==
    <<UserInteraction("ask", <<Field("n", "numeric", FALSE)>>),
      WhileLoop("again", Str("replies.n > 100"),
                <<UserInteraction("retry", <<Field("n", "numeric", FALSE)>>)>>)>>

\* a do-while loop whose condition is false before the first pass
WfDoWhile ==
    <<DoWhile("loop", Str("${replies.n > 100}"),
              <<UserInteraction("ask", <<Field("n", "numeric", FALSE)>>)>>)>>

\* a decision whose if_block holds a loop that is not entered
WfNested ==
    <<UserInteraction("ask", <<Field("budget", "numeric", FALSE)>>),
      Decision("rich", Str("replies.budget > 100"),
               <<WhileLoop("never", Str("replies.budget < 100"), <<ApiCall("call", "search")>>)>>,
               <<UserInteraction("poor", <<Field("note", "text", TRUE)>>)>>),
      UserInteraction("last", <<Field("note", "text", TRUE)>>)>>

\* a node of a type the simulator does not know
WfUnknown ==
    <<UserInteraction("ask", <<Field("note", "text", TRUE)>>),
      [type |-> "sub_flow", id |-> "odd"],
      UserInteraction("last", <<Field("note", "text", TRUE)>>)>>

\* a loop without interactive nodes whose condition stays true
WfForever ==
    <<UserInteraction("ask", <<Field("note", "text", TRUE)>>),
      WhileLoop("spin", Str("true"), <<>>)>>

\* a do-while loop whose condition stays true around a decision without blocks
WfSpin ==
    <<UserInteraction("ask", <<Field("note", "text", TRUE)>>),
      DoWhile("spin", Str("${true}"), <<Decision("skip", Str("false"), <<>>, <<>>)>>)>>

\* a field whose options and the labels of its options are expressions
Choice(name, options, label_expression) ==
    [name |-> name, type |-> "multiple_choice",
     attributes |-> [optional |-> TRUE, options |-> options,
                     label_expression |-> label_expression]]

\* fields at two depths, in blocks that are not entered, whose options and
\* labels refer to the response of the API call that follows, twice by the
\* same text and once by a name that only begins like the variable, and
\* fields that refer to another response or to none
WfOptions ==
    <<Decision("skip", Str("false"),
               <<UserInteraction("pick",
                     <<Choice("item", Str("api_responses.search.items"),
                              Str("api_responses.search.label"))>>)>>,
               <<WhileLoop("never", Str("false"),
                     <<UserInteraction("deep",
                           <<Choice("other", Str("api_responses.search.items"), Str("$.name")),
                             Choice("size", List(<<Str("S"), Str("L")>>),
                                    Str("api_responses.searchable.x")),
                             Choice("shop", Str("api_responses.look_up.shops?map(x -> x.name)"),
                                    Str("replies.item"))>>)>>)>>),
      ApiCall("call", "Search")>>

\* the workflows whose run starts at a user step
Workflows ==
    {WfScenario, WfElse, WfWhile, WfDoWhile, WfNested, WfUnknown, WfForever, WfSpin}

\* the workflows that arrive while the simulator is mounted
LaterWorkflows == {WfWhile}

\* what handleInputChange is called with: the text of an input element, or the
\* value of a chosen option
InputValues == {Num(500), Str("50"), Str("")}

(***************************************************************************)
(* WorkflowSimulator.jsx: helpers                                          *)
(***************************************************************************)
\* JSON.parse(JSON.stringify(x)): a deep copy in which a Date becomes its ISO
\* text, NaN and the undefined elements of a list become null, and the
\* undefined members of an object are dropped
RECURSIVE JsonCopy(_)
JsonCopy(x) ==
    CASE x.t = "date" -> Str("2026-01-01T00:00:00.000Z")
      [] x.t \in {"nan", "undef"} -> Null
      [] x.t = "list" -> List([i \in 1..Len(x.v) |-> JsonCopy(x.v[i])])
      [] x.t = "map" ->
            Map([k \in {q \in DOMAIN x.v : x.v[q].t # "undef"} |-> JsonCopy(x.v[k])])
      [] OTHER -> x

\* the text the mock response editor starts with, and the default put in its
\* place on the first API step
InitialMock == "{\n  \"status\": \"success\",\n  \"data\": \"Mock Data\"\n}"

DefaultMock ==
    "{\n  \"status\": \"success\",\n  \"data\": \"Mock Data\",\n  \"found\": true,\n  \"products\": [\n    \"Speaker A\",\n    \"Speaker B\"\n  ]\n}"

\* texts typed into the mock response editor; the last is not JSON
TypedMocks == {"{\"found\":true}", "{found:"}

SyntaxError == [t |-> "SyntaxError"]

\* JSON.parse on the texts the editor can hold in the model
JsonParse(text) ==
    CASE text = InitialMock -> Map([status |-> Str("success"), data |-> Str("Mock Data")])
      [] text = DefaultMock ->
            Map([status |-> Str("success"), data |-> Str("Mock Data"), found |-> Bool(TRUE),
                 products |-> List(<<Str("Speaker A"), Str("Speaker B")>>)])
      [] text = "{\"found\":true}" -> Map([found |-> Bool(TRUE)])
      [] text = "{\"found\":false}" -> Map([found |-> Bool(FALSE)])
      [] OTHER -> SyntaxError

\* names typed into the response variable field; the last is empty
TypedNames == {""}

ToLowerChar(c) ==
    IF IndexOf("ABCDEFGHIJKLMNOPQRSTUVWXYZ", c) >= 0 /\ Len(c) = 1
    THEN CharAt("abcdefghijklmnopqrstuvwxyz", IndexOf("ABCDEFGHIJKLMNOPQRSTUVWXYZ", c))
    ELSE c

\* rawName.replace(/\s+/g, '_').toLowerCase()
RECURSIVE CleanName(_)
CleanName(rawName) ==
    IF Len(rawName) = 0 THEN ""
    ELSE IF IsSpace(CharAt(rawName, 0))
         THEN "_" \o CleanName(TrimStart(rawName))
         ELSE ToLowerChar(CharAt(rawName, 0)) \o CleanName(SubstringFrom(rawName, 1))

\* node.expression?.['en-US'] || node.expression
ExpressionOf(node) ==
    IF "expression" \notin DOMAIN node THEN Undef
    ELSE JsOr(IF IsNullish(node.expression) THEN Undef ELSE GetProp(node.expression, "en-US"),
              node.expression)

Has(node, key) == key \in DOMAIN node

IsOptional(f) ==
    Has(f, "attributes") /\ Has(f.attributes, "optional") /\ f.attributes.optional

EmptyContext == Map([replies |-> EmptyMap, api_responses |-> EmptyMap, now |-> DateObj])

Replies(ctx) == ctx.v.replies

ApiResponses(ctx) == ctx.v.api_responses

RootFrame(workflow) == [nodes |-> workflow, index |-> 0, type |-> "root"]

EndStep == [ended |-> TRUE, type |-> "end"]

NoStep == [type |-> "null"]

\* newStack[newStack.length - 1].index++
AdvanceTop(stack) == [stack EXCEPT ![Len(stack)].index = @ + 1]

\* a variant of snapshotFrames for a snapshot that holds the stack itself
snapshotFramesAliased(stack) == Len(stack)

\* the frames a snapshot has in common with the stack it is taken of: none,
\* its stack is JSON.parse(JSON.stringify(executionStack))
snapshotFrames(stack) == 0

\* what the snapshots before the last have in common with the state once the
\* last is restored: nothing, each is a copy of its own
Apart(sh) ==
    [i \in 1..Len(sh) - 1 |-> [sh[i] EXCEPT !.frames = 0, !.context = FALSE]]

\* newStack = [...stack] followed by writes to newStack[i].index: a frame the
\* two have at the same position is one object, so whoever holds the first n
\* frames of stack sees the writes to them
WrittenStack(held, n, stack, newStack) ==
    [j \in 1..Len(held) |->
        IF j <= n /\ j <= Len(stack) /\ j <= Len(newStack)
        THEN [held[j] EXCEPT !.index = newStack[j].index]
        ELSE held[j]]

\* the snapshots of a history after the writes that made newStack of stack
InPlace(hist, sh, stack, newStack) ==
    [i \in 1..Len(hist) |->
        [hist[i] EXCEPT !.stack = WrittenStack(@, sh[i].frames, stack, newStack)]]

\* what the snapshots have in common with newStack, made of the stack by
\* pushing, popping and writing to frames
StillShared(sh, newStack) ==
    [i \in 1..Len(sh) |-> [sh[i] EXCEPT !.frames = Min(@, Len(newStack))]]

\* what the snapshots have in common with the state once context is a new
\* object
NewContext(sh) == [i \in 1..Len(sh) |-> [sh[i] EXCEPT !.context = FALSE]]


(***************************************************************************)
(* WorkflowSimulator.jsx: the component's state                            *)
(***************************************************************************)
VARIABLES
    workflow,        \* the workflow prop
    executionStack,  \* useState: the frames, the last one active
    context,         \* useState: { replies, api_responses, now }
    history,         \* useState: snapshots { stack, context }
    currentInputs,   \* useState: what is typed into the fields of the step
    isSimulatingApi, \* useState: an API submission is in its delay
    isGeneratingMock, \* useState: a mock response has been asked for and not arrived
    currentStep,     \* useState: the node shown, EndStep, or NoStep for null
    mockResponse,    \* useState: the text of the mock response editor
    apiNameInput,    \* useState: the response variable name field
    wfDirty,         \* the effect on [workflow] is due
    flowDirty,       \* the effect on [executionStack, context] is due
    stepDirty,       \* the effect on [currentStep, context.replies] is due
    pending,         \* the handleNext calls suspended in their delay, oldest first
    busy,            \* the operations of the user since the oldest of them was suspended
    shared,          \* for each snapshot of the history: how many frames at the bottom
                     \* of its stack are the very objects of executionStack, whether
                     \* its context is the very object of context, and the step that
                     \* was shown when it was pushed (for the properties)
    routed,          \* the block the last decision since the user's last operation
                     \* went into, <<>> when none (for the properties)
    last,            \* the last operation of the user and its outcome (for the properties)
    round,           \* the state before the last submission, while nothing but its
                     \* undoing or its completion has happened since (for the properties)
    evaluation       \* a call of evaluateExpression from outside the component: its
                     \* arguments and, once it has returned, its result; and how the
                     \* text of the expression was put together and the value that a
                     \* literal was written for (for the properties); after is the
                     \* context object as the call has left it

vars ==
    <<workflow, executionStack, context, history, currentInputs, isSimulatingApi, currentStep,
      mockResponse, apiNameInput, wfDirty, flowDirty, stepDirty, pending, busy, shared, routed,
      last, round, evaluation, isGeneratingMock>>

\* the interpreter's state in the sense of the specification
core == <<executionStack, context, history, currentStep>>

\* the longest history the model explores
MaxHistory == 2

\* the most operations of the user that fit into the delay of a suspended call
MaxOpsInDelay == 2


\* React runs the effects of a commit, and the commits they cause, before the
\* next click or timer is handled
Settled == ~wfDirty /\ ~flowDirty /\ ~stepDirty

\* a click or a keystroke is possible; the answer to a request for a mock
\* response arrives, or fails, before the next operation of the user
UserCanAct == Settled /\ (pending = <<>> \/ busy < MaxOpsInDelay) /\ ~isGeneratingMock

Count == IF pending = <<>> THEN 0 ELSE busy + 1

\* the footer buttons are rendered for a step that is not the end step
FooterRendered == currentStep # NoStep /\ currentStep.type # "end"

Op(op, result) == [op |-> op, result |-> result, after |-> last.op, found |-> <<>>]

NoRound == [phase |-> "none"]

NoCall == [state |-> "none"]

\* the component after its first render, the effects still to run
Mounted ==
    /\ executionStack = <<>>
    /\ context = EmptyContext
    /\ history = <<>>
    /\ currentInputs = <<>>
    /\ isSimulatingApi = FALSE
    /\ isGeneratingMock = FALSE
    /\ currentStep = NoStep
    /\ mockResponse = InitialMock
    /\ apiNameInput = ""
    /\ wfDirty = TRUE
    /\ flowDirty = TRUE
    /\ stepDirty = TRUE
    /\ pending = <<>>
    /\ busy = 0
    /\ shared = <<>>
    /\ routed = <<>>
    /\ last = [op |-> "none", result |-> "none", after |-> "none",
             found |-> <<>>]
    /\ round = NoRound

Init ==
    /\ workflow \in Workflows
    /\ Mounted
    /\ evaluation = NoCall

(***************************************************************************)
(* The effects                                                             *)
(***************************************************************************)
TopFrame(stack) == stack[Len(stack)]

Exhausted(stack) == TopFrame(stack).index >= Len(TopFrame(stack).nodes)

TopNode(stack) == TopFrame(stack).nodes[TopFrame(stack).index + 1]

BlockOf(node, key) == IF Has(node, key) THEN node[key] ELSE <<>>

\* the frame processFlow pushes for a block
Frame(nodes, type) == [nodes |-> nodes, index |-> 0, type |-> type]

LoopFrame(nodes, expr) == [nodes |-> nodes, index |-> 0, type |-> "loop_block", expression |-> expr]

Moved(stack) == [kind |-> "stack", stack |-> stack]

\* a variant of frameFinished that leaves a loop after one pass
frameFinishedOnce(stack, ctx) ==
    IF Len(stack) > 1
    THEN Moved(AdvanceTop(SubSeq(stack, 1, Len(stack) - 1)))
    ELSE [kind |-> "step", step |-> EndStep]

\* processFlow, the index of the top frame past its last node: the loop goes
\* round, or the frame is popped and the parent advanced, or the root is done
frameFinishedKeepsParent(stack, ctx) ==
    IF /\ TopFrame(stack).type = "loop_block"
       /\ ToBool(evaluateExpression(TopFrame(stack).expression, ctx))
    THEN Moved([stack EXCEPT ![Len(stack)].index = 0])
    ELSE IF Len(stack) > 1
    THEN Moved(SubSeq(stack, 1, Len(stack) - 1))
    ELSE [kind |-> "step", step |-> EndStep]

frameFinished(stack, ctx) ==
    IF /\ TopFrame(stack).type = "loop_block"
       /\ ToBool(evaluateExpression(TopFrame(stack).expression, ctx))
    THEN Moved([stack EXCEPT ![Len(stack)].index = 0])
    ELSE IF Len(stack) > 1
    THEN Moved(AdvanceTop(SubSeq(stack, 1, Len(stack) - 1)))
    ELSE [kind |-> "step", step |-> EndStep]

\* processFlow on a decision node with the block its result chose: a frame
\* over the block is pushed, or the node is passed over when there is none
enterBlock(stack, block) ==
    IF Len(block) > 0
    THEN Moved(Append(stack, Frame(block, "decision_block")))
    ELSE Moved(AdvanceTop(stack))

\* a variant of decisionNode that takes the other block
decisionNodeOtherBlock(stack, ctx) ==
    enterBlock(stack, IF ToBool(evaluateExpression(ExpressionOf(TopNode(stack)), ctx))
                      THEN BlockOf(TopNode(stack), "else_block")
                      ELSE BlockOf(TopNode(stack), "if_block"))

\* processFlow on a decision node
decisionNode(stack, ctx) ==
    enterBlock(stack, IF ToBool(evaluateExpression(ExpressionOf(TopNode(stack)), ctx))
                      THEN BlockOf(TopNode(stack), "if_block")
                      ELSE BlockOf(TopNode(stack), "else_block"))

\* a variant of whileLoopNode that enters the loop whatever the expression gives
whileLoopNodeAlways(stack, ctx) ==
    LET node == TopNode(stack)
    IN  Moved(Append(stack, LoopFrame(BlockOf(node, "actions"), ExpressionOf(node))))

\* processFlow on a while_loop node
whileLoopNode(stack, ctx) ==
    IF ToBool(evaluateExpression(ExpressionOf(TopNode(stack)), ctx))
    THEN Moved(Append(stack, LoopFrame(BlockOf(TopNode(stack), "actions"),
                                       ExpressionOf(TopNode(stack)))))
    ELSE Moved(AdvanceTop(stack))

\* a variant of doWhileNode that checks the expression before the first pass
doWhileNodeChecked(stack, ctx) ==
    IF ToBool(evaluateExpression(ExpressionOf(TopNode(stack)), ctx))
    THEN Moved(Append(stack, LoopFrame(BlockOf(TopNode(stack), "actions"),
                                       ExpressionOf(TopNode(stack)))))
    ELSE Moved(AdvanceTop(stack))

\* processFlow on a do_while node
doWhileNode(stack, ctx) ==
    LET node == TopNode(stack)
    IN  Moved(Append(stack, LoopFrame(BlockOf(node, "actions"), ExpressionOf(node))))

\* processFlow: the new stack ("stack"), the step to show ("step"), or nothing
processFlow(stack, ctx) ==
    IF Exhausted(stack) THEN frameFinished(stack, ctx)
    ELSE IF TopNode(stack).type = "decision" THEN decisionNode(stack, ctx)
    ELSE IF TopNode(stack).type = "while_loop" THEN whileLoopNode(stack, ctx)
    ELSE IF TopNode(stack).type = "do_while" THEN doWhileNode(stack, ctx)
    ELSE IF TopNode(stack).type \in {"user_interaction", "api_call"}
    THEN [kind |-> "step", step |-> TopNode(stack)]
    ELSE [kind |-> "none"]

\* the inputs restored from the replies when a user step is shown
RestoredInputs(step, ctx) ==
    LET names == {step.fields[i].name : i \in 1..Len(step.fields)}
    IN  [n \in {q \in names : GetProp(Replies(ctx), q).t # "undef"} |-> Replies(ctx).v[n]]

\* currentStep.response || currentStep.api_name || 'unknown_api'
RawName(step) ==
    LET response == IF Has(step, "response") THEN step.response ELSE ""
        api_name == IF Has(step, "api_name") THEN step.api_name ELSE ""
    IN  IF response # "" THEN response ELSE IF api_name # "" THEN api_name ELSE "unknown_api"

\* what one commit's effects write: reset tells that the effect on [workflow]
\* called resetSimulation, flow is what processFlow found, showApi and
\* showUser tell on which kind of step the effect on the step ran
Commit(reset, flow, showApi, showUser) ==
    /\ executionStack' = IF flow.kind = "stack" THEN flow.stack
                         ELSE IF reset THEN <<RootFrame(workflow)>>
                         ELSE executionStack
    /\ context' = IF reset THEN EmptyContext ELSE context
    /\ history' = IF reset THEN <<>>
                  ELSE IF flow.kind = "stack"
                  THEN InPlace(history, shared, executionStack, flow.stack)
                  ELSE history
    /\ shared' = IF reset THEN <<>>
                 ELSE IF flow.kind = "stack" THEN StillShared(shared, flow.stack)
                 ELSE shared
    /\ isSimulatingApi' = IF reset THEN FALSE ELSE isSimulatingApi
    /\ currentStep' = IF flow.kind = "step" THEN flow.step
                      ELSE IF wfDirty /\ ~reset THEN NoStep
                      ELSE currentStep
    /\ apiNameInput' = IF showApi THEN CleanName(RawName(currentStep)) ELSE apiNameInput
    /\ mockResponse' = IF showApi /\ mockResponse = InitialMock THEN DefaultMock ELSE mockResponse
    /\ currentInputs' = IF showUser THEN RestoredInputs(currentStep, context)
                        ELSE IF reset THEN <<>>
                        ELSE currentInputs
    /\ wfDirty' = FALSE
    /\ flowDirty' = (reset \/ flow.kind = "stack")
    /\ stepDirty' = (reset \/ currentStep' # currentStep)
    /\ routed' = IF flow.kind = "stack" /\ Len(flow.stack) > Len(executionStack)
                     /\ TopFrame(flow.stack).type = "decision_block"
                  THEN TopFrame(flow.stack).nodes
                  ELSE routed

\* one commit's effects, each run on the state of that commit, in the order of
\* their declaration: on [workflow], processFlow, and the effect on the step
RunEffects ==
    /\ wfDirty \/ flowDirty \/ stepDirty
    /\ Commit(wfDirty /\ Len(workflow) > 0,
              IF flowDirty /\ Len(executionStack) # 0
              THEN processFlow(executionStack, context)
              ELSE [kind |-> "none"],
              stepDirty /\ currentStep # NoStep /\ currentStep.type = "api_call",
              /\ stepDirty
              /\ currentStep # NoStep
              /\ currentStep.type = "user_interaction"
              /\ Has(currentStep, "fields"))
    /\ UNCHANGED <<evaluation, isGeneratingMock, workflow, pending, busy, last, round>>


(***************************************************************************)
(* The handlers                                                            *)
(***************************************************************************)
FieldNames(step) ==
    IF Has(step, "fields") THEN {step.fields[i].name : i \in 1..Len(step.fields)} ELSE {}

IsUserStep(step) == step.type = "user_interaction" /\ Has(step, "fields")

\* !currentInputs[f.name] && currentInputs[f.name] !== 0
NotFilled(inputs, name) ==
    \/ name \notin DOMAIN inputs
    \/ ~ToBool(inputs[name]) /\ inputs[name] # Num(0)

\* a variant of missingRequired that checks the optional fields instead
missingOptional(step, inputs) ==
    \E i \in 1..Len(step.fields) : IsOptional(step.fields[i]) /\ NotFilled(inputs, step.fields[i].name)

\* handleNext: the check of the required fields
missingRequired(step, inputs) ==
    \E i \in 1..Len(step.fields) : ~IsOptional(step.fields[i]) /\ NotFilled(inputs, step.fields[i].name)

\* the loop that writes the inputs of the step's fields into ctx.replies
RECURSIVE MergeInputs(_, _, _)
MergeInputs(fields, inputs, ctx) ==
    IF Len(fields) = 0 THEN ctx
    ELSE LET name == fields[1].name
             next == IF name \in DOMAIN inputs
                     THEN Put(ctx, "replies", Put(Replies(ctx), name, inputs[name]))
                     ELSE ctx
         IN  MergeInputs(Tail(fields), inputs, next)

\* a variant of Advance whose snapshot holds the stack after the increment
AdvanceThenSnapshot(stack, hist, sh, step, nextContext) ==
    /\ history' = Append(hist, [stack |-> AdvanceTop(stack), context |-> nextContext])
    /\ shared' = Append(NewContext(sh), [frames |-> 0, context |-> TRUE, step |-> step])
    /\ context' = nextContext
    /\ executionStack' = AdvanceTop(stack)
    /\ flowDirty' = TRUE
    /\ stepDirty' = TRUE

\* handleNext, steps 3 and 4: the snapshot, the new context, which is the
\* object the snapshot holds, and the advance, written to the top frame in
\* place
Advance(stack, hist, sh, step, nextContext) ==
    /\ history' = InPlace(Append(hist, [stack |-> stack, context |-> nextContext]),
                          Append(sh, [frames |-> snapshotFrames(stack)]),
                          stack, AdvanceTop(stack))
    /\ shared' = Append(NewContext(sh),
                        [frames |-> snapshotFrames(stack), context |-> TRUE, step |-> step])
    /\ context' = nextContext
    /\ executionStack' = AdvanceTop(stack)
    /\ flowDirty' = TRUE
    /\ stepDirty' = TRUE

handleInputChange(fieldName, value) ==
    /\ UserCanAct
    /\ busy' = Count
    /\ routed' = <<>>
    /\ IsUserStep(currentStep)
    /\ fieldName \in FieldNames(currentStep)
    /\ currentInputs' = [n \in DOMAIN currentInputs \cup {fieldName} |->
                            IF n = fieldName THEN value ELSE currentInputs[n]]
    /\ currentInputs' # currentInputs
    /\ last' = Op("handleInputChange", "typed")
    /\ round' = NoRound
    /\ UNCHANGED <<evaluation, isGeneratingMock, workflow, executionStack, context, history, isSimulatingApi, currentStep,
                   mockResponse, apiNameInput, wfDirty, flowDirty, stepDirty, pending, shared>>

\* typing into the mock response editor
setMockResponse(text) ==
    /\ UserCanAct
    /\ busy' = Count
    /\ routed' = <<>>
    /\ currentStep.type = "api_call"
    /\ text # mockResponse
    /\ mockResponse' = text
    /\ last' = Op("setMockResponse", "typed")
    /\ round' = NoRound
    /\ UNCHANGED <<evaluation, isGeneratingMock, workflow, executionStack, context, history, currentInputs, isSimulatingApi,
                   currentStep, apiNameInput, wfDirty, flowDirty, stepDirty, pending, shared>>

\* typing into the response variable name field
setApiNameInput(name) ==
    /\ UserCanAct
    /\ busy' = Count
    /\ routed' = <<>>
    /\ currentStep.type = "api_call"
    /\ name # apiNameInput
    /\ apiNameInput' = name
    /\ last' = Op("setApiNameInput", "typed")
    /\ round' = NoRound
    /\ UNCHANGED <<evaluation, isGeneratingMock, workflow, executionStack, context, history, currentInputs, isSimulatingApi,
                   currentStep, mockResponse, wfDirty, flowDirty, stepDirty, pending, shared>>

\* handleNext on a user step: rejected, or the inputs merged and the advance
handleNextUser ==
    /\ UserCanAct
    /\ busy' = Count
    /\ routed' = <<>>
    /\ FooterRendered
    /\ ~isSimulatingApi
    /\ IsUserStep(currentStep)
    /\ IF missingRequired(currentStep, currentInputs)
       THEN /\ last' = Op("handleNext", "ValidationError")
            /\ round' = NoRound
            /\ UNCHANGED <<executionStack, context, history, shared, flowDirty, stepDirty>>
       ELSE /\ Len(history) < MaxHistory
            /\ Advance(executionStack, history, shared, currentStep,
                       MergeInputs(currentStep.fields, currentInputs, JsonCopy(context)))
            /\ last' = Op("handleNext", "submitted")
            /\ round' = [phase |-> "submitted", stack |-> executionStack, context |-> context,
                          history |-> history, step |-> currentStep, inputs |-> currentInputs]
    /\ UNCHANGED <<evaluation, isGeneratingMock, workflow, currentInputs, isSimulatingApi, currentStep, mockResponse,
                   apiNameInput, wfDirty, pending>>

\* handleNext on an API step, up to the await: the call is suspended with what
\* its closure holds
handleNextApi ==
    /\ UserCanAct
    /\ busy' = IF pending = <<>> THEN 0 ELSE busy + 1
    /\ routed' = <<>>
    /\ FooterRendered
    /\ ~isSimulatingApi
    /\ currentStep.type = "api_call"
    /\ isSimulatingApi' = TRUE
    /\ pending' = Append(pending, [executionStack |-> executionStack, history |-> history,
                                   currentStep |-> currentStep,
                                   nextContext |-> JsonCopy(context),
                                   mockResponse |-> mockResponse, apiNameInput |-> apiNameInput,
                                   shared |-> shared])
    /\ last' = Op("handleNext", "started")
    /\ round' = [phase |-> "called", stack |-> executionStack, context |-> context,
                  history |-> history, step |-> currentStep,
                  mockResponse |-> mockResponse, apiNameInput |-> apiNameInput]
    /\ UNCHANGED <<evaluation, isGeneratingMock, workflow, executionStack, context, history, currentInputs, currentStep,
                   mockResponse, apiNameInput, wfDirty, flowDirty, stepDirty, shared>>

\* a variant of parseFailed that lets every text through
parseNeverFails(parsedResponse) == FALSE

\* JSON.parse threw: the catch of handleNext
parseFailed(parsedResponse) == parsedResponse = SyntaxError

\* handleNext on an API step, after the await: the payload is rejected, or
\* stored under the name and the advance made, all from the closure
handleNextApiResume ==
    /\ Settled
    /\ pending # <<>>
    /\ LET call == Head(pending)
           parsedResponse == JsonParse(call.mockResponse)
           apiName == IF call.apiNameInput # "" THEN call.apiNameInput ELSE "unknown_api"
       IN  IF parseFailed(parsedResponse)
           THEN /\ last' = Op("handleNextResume", "InvalidPayload")
                /\ round' = IF round.phase = "called"
                             THEN [round EXCEPT !.phase = "rejected"]
                             ELSE NoRound
                /\ UNCHANGED <<executionStack, context, history, shared, flowDirty, stepDirty>>
           ELSE /\ Len(call.history) < MaxHistory
                /\ Advance(call.executionStack, call.history, call.shared, call.currentStep,
                           Put(call.nextContext, "api_responses",
                               Put(ApiResponses(call.nextContext), apiName, parsedResponse)))
                /\ last' = Op("handleNextResume", "stored")
                /\ round' = IF round.phase = "called"
                             THEN [round EXCEPT !.phase = "answered"]
                             ELSE NoRound
    /\ isSimulatingApi' = FALSE
    /\ pending' = Tail(pending)
    /\ busy' = 0
    /\ routed' = <<>>
    /\ UNCHANGED <<evaluation, isGeneratingMock, workflow, currentInputs, currentStep, mockResponse, apiNameInput, wfDirty>>

\* a variant of handleBackEmpty that writes the inputs of the shown step into
\* the context
handleBackEmptyMerges ==
    /\ context' = IF IsUserStep(currentStep)
                  THEN MergeInputs(currentStep.fields, currentInputs, JsonCopy(context))
                  ELSE context
    /\ last' = Op("handleBack", "NoHistory")
    /\ round' = NoRound
    /\ UNCHANGED <<executionStack, history, shared, flowDirty, stepDirty>>

\* handleBack without history: the early return
handleBackEmpty ==
    /\ last' = Op("handleBack", "NoHistory")
    /\ round' = NoRound
    /\ UNCHANGED <<executionStack, context, history, shared, flowDirty, stepDirty>>

\* handleBack: the last snapshot restored, with the inputs of the shown user
\* step written into its context
handleBack ==
    /\ UserCanAct
    /\ busy' = Count
    /\ routed' = <<>>
    /\ FooterRendered
    /\ ~isSimulatingApi
    /\ IF Len(history) > 0
       THEN LET prevState == history[Len(history)]
                copy == JsonCopy(prevState.context)
                contextToRestore == IF IsUserStep(currentStep)
                                    THEN MergeInputs(currentStep.fields, currentInputs, copy)
                                    ELSE copy
            IN  /\ executionStack' = prevState.stack
                /\ context' = contextToRestore
                /\ history' = SubSeq(history, 1, Len(history) - 1)
                /\ shared' = Apart(shared)
                /\ flowDirty' = TRUE
                /\ stepDirty' = TRUE
                /\ last' = Op("handleBack", "restored")
                /\ round' = IF round.phase = "submitted"
                             THEN [round EXCEPT !.phase = "undone"]
                             ELSE [phase |-> "restored", step |-> shared[Len(shared)].step,
                                   history |-> SubSeq(history, 1, Len(history) - 1)]
       ELSE handleBackEmpty
    /\ UNCHANGED <<evaluation, isGeneratingMock, workflow, currentInputs, isSimulatingApi, currentStep, mockResponse,
                   apiNameInput, wfDirty, pending>>

\* a variant of resetSimulation that keeps the history
resetSimulationKeepsHistory ==
    /\ UserCanAct
    /\ busy' = Count
    /\ routed' = <<>>
    /\ currentStep # NoStep
    /\ executionStack' = <<RootFrame(workflow)>>
    /\ context' = EmptyContext
    /\ currentInputs' = <<>>
    /\ isSimulatingApi' = FALSE
    /\ flowDirty' = TRUE
    /\ stepDirty' = TRUE
    /\ last' = Op("resetSimulation", "reset")
    /\ round' = NoRound
    /\ UNCHANGED <<evaluation, isGeneratingMock, workflow, history, shared, currentStep, mockResponse, apiNameInput, wfDirty,
                   pending>>

\* the Reset and Restart buttons
resetSimulation ==
    /\ UserCanAct
    /\ busy' = Count
    /\ routed' = <<>>
    /\ currentStep # NoStep
    /\ executionStack' = <<RootFrame(workflow)>>
    /\ context' = EmptyContext
    /\ history' = <<>>
    /\ shared' = <<>>
    /\ currentInputs' = <<>>
    /\ isSimulatingApi' = FALSE
    /\ flowDirty' = TRUE
    /\ stepDirty' = TRUE
    /\ last' = Op("resetSimulation", "reset")
    /\ round' = NoRound
    /\ UNCHANGED <<evaluation, isGeneratingMock, workflow, currentStep, mockResponse, apiNameInput, wfDirty, pending>>

\* the parent renders the simulator with another workflow
newWorkflow(w) ==
    /\ UserCanAct
    /\ busy' = Count
    /\ routed' = <<>>
    /\ workflow' = w
    /\ wfDirty' = TRUE
    /\ last' = Op("newWorkflow", "prop")
    /\ round' = NoRound
    /\ UNCHANGED <<evaluation, isGeneratingMock, executionStack, context, history, currentInputs, isSimulatingApi, currentStep,
                   mockResponse, apiNameInput, flowDirty, stepDirty, pending, shared>>

(***************************************************************************)
(* The mock response generator                                             *)
(***************************************************************************)
\* expressions.add(e) on the Set, kept in the order of insertion
AddOnce(expressions, e) ==
    IF \E i \in 1..Len(expressions) : expressions[i] = e THEN expressions
    ELSE Append(expressions, e)

\* field.attributes && field.attributes[key], undefined when there is none
AttributeOf(field, key) ==
    IF Has(field, "attributes") /\ Has(field.attributes, key) THEN field.attributes[key] ELSE Undef

\* the test on one attribute of a field: the attribute is truthy, a string,
\* and includes `api_responses.${varName}` (label_expression is a string in
\* every workflow of the model)
Uses(attribute, varName) ==
    /\ ToBool(attribute)
    /\ attribute.t = "str"
    /\ Includes(attribute.v, "api_responses." \o varName)

\* the body of the loop over node.fields
ScanField(field, varName, expressions) ==
    IF Uses(AttributeOf(field, "label_expression"), varName)
    THEN AddOnce(IF Uses(AttributeOf(field, "options"), varName)
                 THEN AddOnce(expressions, AttributeOf(field, "options").v)
                 ELSE expressions,
                 AttributeOf(field, "label_expression").v)
    ELSE IF Uses(AttributeOf(field, "options"), varName)
         THEN AddOnce(expressions, AttributeOf(field, "options").v)
         ELSE expressions

RECURSIVE ScanFields(_, _, _, _)
ScanFields(fields, i, varName, expressions) ==
    IF i > Len(fields) THEN expressions
    ELSE ScanFields(fields, i + 1, varName, ScanField(fields[i], varName, expressions))

RECURSIVE scanNodes(_, _, _, _)

\* a variant of scanNode that does not go into else_block
scanNodeWithoutElse(node, varName, expressions) ==
    scanNodes(BlockOf(node, "if_block"), 1, varName,
        scanNodes(BlockOf(node, "actions"), 1, varName,
            ScanFields(BlockOf(node, "fields"), 1, varName, expressions)))

\* scanNode: the fields of the node, then its actions, if_block, else_block
scanNode(node, varName, expressions) ==
    scanNodes(BlockOf(node, "else_block"), 1, varName,
        scanNodes(BlockOf(node, "if_block"), 1, varName,
            scanNodes(BlockOf(node, "actions"), 1, varName,
                ScanFields(BlockOf(node, "fields"), 1, varName, expressions))))

\* nodes.forEach(scanNode)
scanNodes(nodes, i, varName, expressions) ==
    IF i > Len(nodes) THEN expressions
    ELSE scanNodes(nodes, i + 1, varName, scanNode(nodes[i], varName, expressions))

\* Array.from(expressions)
findAllExpressionUsages(nodes, varName) == scanNodes(nodes, 1, varName, <<>>)

\* the Generate Mock Response button, rendered for an API call while no
\* generation is under way: the expressions are collected for the prompt
\* and the prompt is sent; the log of the debug panel is not part of the
\* state of the model
handleGenerateMock ==
    /\ UserCanAct
    /\ busy' = Count
    /\ routed' = <<>>
    /\ currentStep # NoStep
    /\ currentStep.type = "api_call"
    /\ ~isGeneratingMock
    /\ isGeneratingMock' = TRUE
    /\ last' = [Op("handleGenerateMock", "asked") EXCEPT
                    !.found = findAllExpressionUsages(workflow, CleanName(RawName(currentStep)))]
    /\ round' = NoRound
    /\ UNCHANGED <<evaluation, workflow, executionStack, context, history, currentInputs,
                   isSimulatingApi, currentStep, mockResponse, apiNameInput, wfDirty, flowDirty,
                   stepDirty, pending, shared>>

\* the texts the chat endpoint answers with, cut out of their code block:
\* JSON, or a text that is not
GeneratedMocks == {"{\"found\":true}", "{found:"}

\* sendMessage(...).then: the answer is put into the editor
mockGenerated(json) ==
    /\ isGeneratingMock
    /\ mockResponse' = json
    /\ isGeneratingMock' = FALSE
    /\ round' = NoRound
    /\ UNCHANGED <<evaluation, workflow, executionStack, context, history, currentInputs,
                   isSimulatingApi, currentStep, apiNameInput, wfDirty, flowDirty, stepDirty,
                   pending, busy, shared, routed, last>>

\* sendMessage(...).catch: the failure is shown in an alert
mockFailed ==
    /\ isGeneratingMock
    /\ isGeneratingMock' = FALSE
    /\ UNCHANGED <<evaluation, workflow, executionStack, context, history, currentInputs,
                   isSimulatingApi, currentStep, mockResponse, apiNameInput, wfDirty, flowDirty,
                   stepDirty, pending, busy, shared, routed, last, round>>

Next ==
    \/ RunEffects
    \/ \E f \in FieldNames(currentStep), v \in InputValues : handleInputChange(f, v)
    \/ \E text \in TypedMocks : setMockResponse(text)
    \/ \E name \in TypedNames : setApiNameInput(name)
    \/ handleNextUser
    \/ handleNextApi
    \/ handleNextApiResume
    \/ handleBack
    \/ resetSimulation
    \/ \E w \in LaterWorkflows : newWorkflow(w)
    \/ handleGenerateMock
    \/ \E json \in GeneratedMocks : mockGenerated(json)
    \/ mockFailed

Spec == Init /\ [][Next]_vars

\* the simulator mounted on the workflow whose run starts at an API call, so
\* that a reset during the delay of a submission leads straight back to the
\* Execute button
ApiFirstInit ==
    /\ workflow = WfOptions
    /\ Mounted
    /\ evaluation = NoCall

ApiFirstSpec == ApiFirstInit /\ [][Next]_vars

\* an effect of the last render is due
EffectsDue == wfDirty \/ flowDirty \/ stepDirty

\* React runs the effects that are due: weak fairness of RunEffects, which
\* is enabled exactly when an effect is due
EffectsRun == []<>(~EffectsDue) \/ []<><<RunEffects>>_vars

\* the timer of a suspended handleNext fires: weak fairness of
\* handleNextApiResume, which is enabled when the effects have run and a
\* call is suspended
TimersFire == []<>(~(Settled /\ pending # <<>>)) \/ []<><<handleNextApiResume>>_vars

(***************************************************************************)
(* The evaluator called on its own                                         *)
(***************************************************************************)
\* a response with a member toString, as JSON.parse makes it of {"toString": 1}
Unprintable == Map([toString |-> Num(1)])

Contexts ==
    <<EmptyContext,
     Map([replies |-> Map([age |-> Num(20), name |-> Str("John")]),
          api_responses |-> Map([bad |-> Unprintable, list |-> List(<<Str("a"), Unprintable>>)]),
          now |-> DateObj]),
     Map([replies |-> Map([age |-> Str("abc")]),
          api_responses |-> Map([bad |-> Map([status |-> Str("ok")]),
                                 list |-> List(<<Str("a")>>),
                                 none |-> List(<<>>),
                                 blank |-> List(<<Str("")>>),
                                 two |-> List(<<Str("a"), Str("b")>>),
                                 gap |-> List(<<Str("a"), Str(""), Str("b c")>>),
                                 items |-> List(<<Map([id |-> Num(1), name |-> Str("A"),
                                                       ok |-> Bool(TRUE),
                                                       tags |-> List(<<Str("p"), Str("q")>>)]),
                                                  Map([id |-> Num(2), name |-> Str("B"),
                                                       ok |-> Bool(FALSE),
                                                       tags |-> List(<<>>)])>>)]),
          now |-> DateObj])>>

\* expression texts in the syntax of the evaluator
WellFormed ==
    <<"replies.age > 18", "replies.name + '!'", "api_responses.bad", "${replies.age}",
      "replies.name == 'John' && replies.age >= 18", "api_responses.list?size",
      "100 < 50 || false">>

\* expression texts that are cut off, unbalanced or without operands
Malformed ==
    <<"", " ", "(", ")(", "replies.age >", "== 1", "${", "'abc", "replies.age ?then(1",
      "replies.age?nope", "&& ||", "{a:", "1 +", "1 2", "a ? b : c">>

\* expression texts that convert api_responses.bad or an element of
\* api_responses.list to a string or to a primitive
Converting ==
    <<"api_responses.bad + 'a'", "api_responses.bad > 1", "api_responses.bad == 1",
      "api_responses.bad?string", "api_responses.list?join('-')", "{toString: 1} + ''",
      "!(api_responses.bad < 2)", "api_responses.bad >= 1 || true",
      "(api_responses.bad + 'x')?then(1, 2)", "true && api_responses.bad != 'x'",
      "{a: api_responses.bad + 'x'}", "api_responses.list?map(x -> x + '!')",
      "(api_responses.bad + 'a')?size">>

\* arguments that are no strings
NotStrings ==
    <<Bool(TRUE), Bool(FALSE), Num(0), Num(7), NaN, Null, List(<<>>), List(<<Num(1)>>),
      EmptyMap, Map([a |-> Num(1)])>>

Texts == WellFormed \o Malformed \o Converting

Arguments == [i \in 1..Len(Texts) |-> Str(Texts[i])] \o NotStrings

\* operands without a top-level || or &&
Operands == <<"true", "false", "replies.name", "api_responses.bad > 1">>

Relational == <<"100 > 50", "replies.age > 18", "replies.age <= 18">>

Equality == <<"'a' == 'a'", "replies.name == 'John'", "replies.name != 'John'">>

\* the call of evaluateExpression on a text put together from parts
Called(form, parts, text, ctx) ==
    [state |-> "called", form |-> form, parts |-> parts, expression |-> Str(text),
     context |-> ctx, value |-> Undef, result |-> Undef, after |-> Undef]

\* texts with two or three operators of different or of the same rank
Logical(ctx) ==
    \/ \E a \in 1..Len(Operands), b \in 1..Len(Operands), c \in 1..Len(Operands) :
        LET parts == <<Operands[a], Operands[b], Operands[c]>>
        IN  \/ evaluation = Called("a || b && c", parts,
                                   parts[1] \o " || " \o parts[2] \o " && " \o parts[3], ctx)
            \/ evaluation = Called("a || b || c", parts,
                                   parts[1] \o " || " \o parts[2] \o " || " \o parts[3], ctx)
            \/ evaluation = Called("a && b && c", parts,
                                   parts[1] \o " && " \o parts[2] \o " && " \o parts[3], ctx)
    \/ \E r \in 1..Len(Relational), q \in 1..Len(Equality) :
            evaluation = Called("x > y && p == q", <<Relational[r], Equality[q]>>,
                                Relational[r] \o " && " \o Equality[q], ctx)

\* conditions: no top-level || or && outside parentheses
Conditions ==
    <<"true", "false", "replies.age > 18", "replies.name", "replies.missing??",
      "(replies.age > 18 || replies.name == 'John')", "api_responses.bad > 1">>

\* arguments of ?then
Branches == <<"'Adult'", "'Minor'", "replies.name", "api_responses.bad + 'a'">>

\* c ?then(a, b)
ThenText(c, a, b) == c \o " ?then(" \o a \o ", " \o b \o ")"

Conditional(ctx) ==
    \E c \in 1..Len(Conditions), a \in 1..Len(Branches), b \in 1..Len(Branches) :
        evaluation = Called("c ?then(a, b)", <<Conditions[c], Branches[a], Branches[b]>>,
                            ThenText(Conditions[c], Branches[a], Branches[b]), ctx)

Truths == <<"true", "false", "replies.age > 18">>

\* c1 ?then(c2 ?then(a, b), d) and c1 ?then(a, c2 ?then(b, d))
Nested(ctx) ==
    \E c1 \in 1..Len(Truths), c2 \in 1..Len(Truths) :
        LET parts == <<Truths[c1], Truths[c2], "'A'", "'B'", "'D'">>
        IN  \/ evaluation = Called("c1 ?then(c2 ?then(a, b), d)", parts,
                                   ThenText(parts[1], ThenText(parts[2], parts[3], parts[4]), parts[5]),
                                   ctx)
            \/ evaluation = Called("c1 ?then(a, c2 ?then(b, d))", parts,
                                   ThenText(parts[1], parts[3], ThenText(parts[2], parts[4], parts[5])),
                                   ctx)

\* operands of +
Terms ==
    <<"'a'", "1", "2", "true", "null", "replies.name", "replies.missing", "api_responses.bad",
      "api_responses.list", "('x')">>

FewTerms == <<"1", "2", "'-'", "replies.missing">>

\* a + b and a + b + c
Sums(ctx) ==
    \/ \E a \in 1..Len(Terms), b \in 1..Len(Terms) :
            evaluation = Called("a + b", <<Terms[a], Terms[b]>>, Terms[a] \o " + " \o Terms[b], ctx)
    \/ \E a \in 1..Len(FewTerms), b \in 1..Len(FewTerms), c \in 1..Len(FewTerms) :
            evaluation = Called("a + b + c", <<FewTerms[a], FewTerms[b], FewTerms[c]>>,
                                FewTerms[a] \o " + " \o FewTerms[b] \o " + " \o FewTerms[c], ctx)

\* variable paths
Paths ==
    <<"replies", "replies.name", "replies.age", "replies.missing", "missing", "missing.name",
      "api_responses.bad.status", "api_responses.list.0", "api_responses.list.5", "now",
      "replies.name.length", "replies.constructor", "toString", "api_responses.list.0.valueOf">>

\* p??
Existence(ctx) ==
    \E p \in 1..Len(Paths) : evaluation = Called("p??", <<Paths[p]>>, Paths[p] \o "??", ctx)

Lists == <<"api_responses.items", "api_responses.list">>

\* the variable and the body of a ?map
Bodies ==
    <<<<"x", "x">>, <<"x", "x.name">>, <<"x", "x.name + ' - ' + x.id">>, <<"x", "x.id > 1">>,
      <<"x", "x.id == 1 || x.name == 'B' && x.ok">>, <<"x", "!x.ok">>,
      <<"x", "{ \"value\": x.id, label: x.name + ' #' + x.id?string }">>,
      <<"item", "item.name + replies.age">>, <<"replies", "replies.name">>,
      <<"x", "x.ok ?then('yes', 'no')">>, <<"x", "x.tags?map(y -> y + x.id)">>>>

\* l?map(x -> body)
Maps(ctx) ==
    \E l \in 1..Len(Lists), b \in 1..Len(Bodies) :
        evaluation = Called("l?map(x -> body)", <<Lists[l], Bodies[b][1], Bodies[b][2]>>,
                            Lists[l] \o "?map(" \o Bodies[b][1] \o " -> " \o Bodies[b][2] \o ")",
                            ctx)

\* texts of values
Values ==
    <<"1", "0", "true", "false", "null", "''", "'a'", "replies.missing", "replies.name",
      "replies.age", "api_responses.list", "api_responses.bad", "api_responses.items.0.id">>

\* v?string
Strings(ctx) ==
    \E v \in 1..Len(Values) :
        evaluation = Called("v?string", <<Values[v]>>, Values[v] \o "?string", ctx)

StringLists ==
    <<"api_responses.list", "api_responses.none", "api_responses.blank", "api_responses.two",
      "api_responses.gap">>

\* separators as they are written in the text
Separators == <<"','", "'-'", "\"|\"", "', '", "'aa'", "'a'", "''">>

\* l?join(sep)?split(sep)
RoundTrips(ctx) ==
    \E l \in 1..Len(StringLists), q \in 1..Len(Separators) :
        evaluation = Called("l?join(sep)?split(sep)", <<StringLists[l], Separators[q]>>,
                            StringLists[l] \o "?join(" \o Separators[q] \o ")?split("
                                \o Separators[q] \o ")",
                            ctx)

\* literal texts with the values they stand for
Literals ==
    <<<<"0", Num(0)>>, <<"7", Num(7)>>, <<"100", Num(100)>>, <<"-5", Num(0 - 5)>>,
      <<"true", Bool(TRUE)>>, <<"false", Bool(FALSE)>>, <<"null", Null>>,
      <<"''", Str("")>>, <<"'Adult'", Str("Adult")>>, <<"\"it's\"", Str("it's")>>,
      <<"' a '", Str(" a ")>>, <<"'a+b'", Str("a+b")>>, <<"'a || b'", Str("a || b")>>,
      <<"'a == b'", Str("a == b")>>, <<"'a > b'", Str("a > b")>>, <<"'(a)'", Str("(a)")>>,
      <<"'x ?then(1, 2)'", Str("x ?then(1, 2)")>>, <<"'a?size'", Str("a?size")>>,
      <<"'a??'", Str("a??")>>, <<"'!a'", Str("!a")>>, <<"'5'", Str("5")>>,
      <<"'true'", Str("true")>>, <<"'replies.name'", Str("replies.name")>>,
      <<"'${a}'", Str("${a}")>>, <<"'{a: 1}'", Str("{a: 1}")>>>>

\* texts of numbers that the integers of the model do not hold: the text
\* that JavaScript writes for 10^21
LargeNumbers == <<"1e+21">>

\* a literal
LiteralTexts(ctx) ==
    \/ \E v \in 1..Len(Literals) :
            evaluation = [state |-> "called", form |-> "literal", parts |-> <<Literals[v][1]>>,
                          value |-> Literals[v][2], expression |-> Str(Literals[v][1]),
                          context |-> ctx, result |-> Undef, after |-> Undef]
    \/ \E v \in 1..Len(LargeNumbers) :
            evaluation = Called("large number", <<LargeNumbers[v]>>, LargeNumbers[v], ctx)

\* expressions to put into the wrapper
Inner ==
    WellFormed \o <<"", " ", "true", "100", " replies.age ", "api_responses.list",
                    "replies.age > 18 ?then('Adult', 'Minor')", "replies.missing??",
                    "{a: 1}", "'}'", "api_responses.bad + 'a'">>

\* texts that begin or end with a placeholder and hold more than it
Mixed ==
    <<"${replies.name} + ${replies.name}", "${replies.age} > ${replies.age}",
      "Hi ${replies.name}", "${replies.name}!", "'${replies.name}'">>

\* the whole string ${E}, and strings that are more than one placeholder
Wrapped(ctx) ==
    \/ \E e \in 1..Len(Inner) :
            evaluation = Called("${e}", <<Inner[e]>>, "${" \o Inner[e] \o "}", ctx)
    \/ \E e \in 1..Len(Inner) :
            evaluation = Called(" ${e} ", <<Inner[e]>>, " ${" \o Inner[e] \o "} ", ctx)
    \/ \E m \in 1..Len(Mixed) :
            evaluation = Called("mixed", <<Mixed[m]>>, Mixed[m], ctx)

\* paths through maps, lists, strings and numbers, to members that are
\* there, that are missing and that are inherited
LongPaths ==
    <<"api_responses.items.1.name", "api_responses.items.0.tags.1", "api_responses.items.2.name",
      "api_responses.items.x", "api_responses.list.-1", "replies.age.x.y", "replies..name",
      "missing.a.b.c", "api_responses.bad.status.0", "api_responses.items.01.id",
      "api_responses.items.length", "replies.name.toString.name", "now.x">>

\* a path
Resolutions(ctx) ==
    \/ \E p \in 1..Len(Paths) : evaluation = Called("path", <<Paths[p]>>, Paths[p], ctx)
    \/ \E p \in 1..Len(LongPaths) :
            evaluation = Called("path", <<LongPaths[p]>>, LongPaths[p], ctx)

\* the bodies without a stage or a ?then of their own
PlainBodies == SubSeq(Bodies, 1, 9)

\* a ?map whose variable a later stage names
Rebinding(ctx) ==
    \E l \in 1..Len(Lists), b \in 1..Len(PlainBodies) :
        evaluation = Called("l?map(x -> body)?map(y -> x)",
                            <<Lists[l], PlainBodies[b][1], PlainBodies[b][2]>>,
                            Lists[l] \o "?map(" \o PlainBodies[b][1] \o " -> " \o PlainBodies[b][2]
                                     \o ")?map(y -> " \o PlainBodies[b][1] \o ")",
                            ctx)

EvaluatorInit ==
    /\ workflow = WfScenario
    /\ Mounted
    /\ \E j \in 1..Len(Contexts) :
        \/ \E i \in 1..Len(Arguments) :
                evaluation = [state |-> "called", form |-> "argument", parts |-> <<>>,
                              expression |-> Arguments[i], context |-> Contexts[j],
                              value |-> Undef, result |-> Undef, after |-> Undef]
        \/ Logical(Contexts[j])
        \/ Conditional(Contexts[j])
        \/ Nested(Contexts[j])
        \/ Sums(Contexts[j])
        \/ Existence(Contexts[j])
        \/ Maps(Contexts[j])
        \/ Strings(Contexts[j])
        \/ RoundTrips(Contexts[j])
        \/ LiteralTexts(Contexts[j])
        \/ Wrapped(Contexts[j])
        \/ Resolutions(Contexts[j])
        \/ Rebinding(Contexts[j])

\* evaluateExpression(expression, context) is called and returns
evaluate ==
    /\ evaluation.state = "called"
    /\ evaluation' = [evaluation EXCEPT
                         !.state = "returned",
                         !.result = evaluateExpression(evaluation.expression, evaluation.context),
                         !.after = ContextAfter(evaluation.expression, evaluation.context)]
    /\ UNCHANGED <<workflow, executionStack, context, history, currentInputs, isSimulatingApi,
                   isGeneratingMock, currentStep, mockResponse, apiNameInput, wfDirty, flowDirty,
                   stepDirty, pending, busy, shared, routed, last, round>>

EvaluatorNext == evaluate

EvaluatorSpec == EvaluatorInit /\ [][EvaluatorNext]_vars

(***************************************************************************)
(* Properties                                                              *)
(***************************************************************************)
\* a submission of a user step that the stack pointed at has been undone by
\* the very next operation, and the effects have run
UndoneAtStep ==
    /\ Settled
    /\ round.phase = "undone"
    /\ ~Exhausted(round.stack)
    /\ TopNode(round.stack) = round.step

ScenarioAtCall ==
    <<[nodes |-> WfScenario, index |-> 1, type |-> "root"],
      [nodes |-> WfScenario[2].if_block, index |-> 0, type |-> "decision_block"]>>

\* the scenario's first submission has just been made: budget = 500 from the start
ScenarioBudgetSubmitted ==
    /\ Settled
    /\ last.op = "handleNext"
    /\ round.phase = "submitted"
    /\ round.stack = <<RootFrame(WfScenario)>>
    /\ round.history = <<>>
    /\ "budget" \in DOMAIN round.inputs
    /\ round.inputs["budget"] = Num(500)

\* the scenario's second submission has just been made: { found: true } as search
ScenarioPayloadSubmitted ==
    /\ Settled
    /\ round.phase = "answered"
    /\ round.stack = ScenarioAtCall
    /\ round.history = <<[stack |-> <<RootFrame(WfScenario)>>, context |-> round.context]>>
    /\ GetProp(Replies(round.context), "budget") = Num(500)
    /\ round.mockResponse = "{\"found\":true}"
    /\ round.apiNameInput = "search"

\* C2: in the scenario workflow, submitting budget = 500 makes the API call
\* the current step, and submitting { found: true } as search then completes
\* the run with replies.budget = 500 and api_responses.search.found = true.
C2_Scenario ==
    /\ ScenarioBudgetSubmitted =>
          /\ currentStep = ApiCall("call", "search")
          /\ executionStack = ScenarioAtCall
    /\ ScenarioPayloadSubmitted =>
          /\ currentStep = EndStep
          /\ resolveVariable("replies.budget", context) = Num(500)
          /\ resolveVariable("api_responses.search.found", context) = Bool(TRUE)

\* C2 witness: the scenario has run to its end
C2_Witness == ScenarioPayloadSubmitted /\ currentStep = EndStep

Interactive == {"user_interaction", "api_call"}

\* processFlow is due on a node of the given type
Due(type) ==
    /\ flowDirty
    /\ Len(executionStack) > 0
    /\ ~Exhausted(executionStack)
    /\ TopNode(executionStack).type = type

Truthy(expr) == ToBool(evaluateExpression(expr, context))

\* the nodes of a block and of the blocks inside it
RECURSIVE NodesIn(_)
NodesIn(block) ==
    UNION {{block[i]} \cup NodesIn(BlockOf(block[i], "if_block"))
                      \cup NodesIn(BlockOf(block[i], "else_block"))
                      \cup NodesIn(BlockOf(block[i], "actions")) : i \in 1..Len(block)}

DecisionRouted ==
    LET node == TopNode(executionStack)
        taken == IF Truthy(ExpressionOf(node)) THEN BlockOf(node, "if_block")
                                               ELSE BlockOf(node, "else_block")
    IN  IF Len(taken) > 0
        THEN executionStack' =
                 Append(executionStack, [nodes |-> taken, index |-> 0, type |-> "decision_block"])
        ELSE /\ Len(executionStack') = Len(executionStack)
             /\ TopFrame(executionStack').index = TopFrame(executionStack).index + 1
             /\ SubSeq(executionStack', 1, Len(executionStack) - 1) =
                    SubSeq(executionStack, 1, Len(executionStack) - 1)

LoopFrameKept ==
    (/\ flowDirty
     /\ Len(executionStack) > 0
     /\ TopFrame(executionStack).type = "loop_block"
     /\ ~Exhausted(executionStack))
    => /\ Len(executionStack') >= Len(executionStack)
       /\ executionStack'[Len(executionStack)].index >= TopFrame(executionStack).index

\* C4: on a do_while node a loop frame over its actions is pushed whatever the
\* expression gives, the frame stays until its index is past its last node,
\* and the interactive node the stack points at is the current step once the
\* effects have run: the body is shown even when the expression is false at
\* the entry.
C4_DoWhileBodyFirst ==
    /\ [][Due("do_while") =>
             LET node == TopNode(executionStack)
             IN  executionStack' =
                     Append(executionStack,
                            [nodes |-> BlockOf(node, "actions"), index |-> 0,
                             type |-> "loop_block", expression |-> ExpressionOf(node)])]_vars
    /\ [][LoopFrameKept]_vars
    /\ []((/\ Settled
           /\ Len(executionStack) > 0
           /\ ~Exhausted(executionStack)
           /\ TopNode(executionStack).type \in Interactive)
          => currentStep = TopNode(executionStack))

\* C4 witness: the first pass of a do-while body is shown although the
\* expression is false
C4_Witness ==
    /\ Settled
    /\ history = <<>>
    /\ Len(executionStack) = 2
    /\ executionStack[1].index = 0
    /\ executionStack[1].nodes[1].type = "do_while"
    /\ TopFrame(executionStack) =
           LoopFrame(executionStack[1].nodes[1].actions, executionStack[1].nodes[1].expression)
    /\ ~Truthy(TopFrame(executionStack).expression)
    /\ currentStep = executionStack[1].nodes[1].actions[1]

\* C5: on a while_loop node whose expression is falsy no frame is pushed, the
\* index of the enclosing frame goes up by one and the current step stays what
\* it was; when it is truthy a loop frame over its actions with index 0 and
\* the expression is pushed.
C5_WhileLoopEntry ==
    [][Due("while_loop") =>
          LET node == TopNode(executionStack)
          IN  IF Truthy(ExpressionOf(node))
              THEN executionStack' =
                       Append(executionStack,
                              [nodes |-> BlockOf(node, "actions"), index |-> 0,
                               type |-> "loop_block", expression |-> ExpressionOf(node)])
              ELSE /\ Len(executionStack') = Len(executionStack)
                   /\ TopFrame(executionStack').index = TopFrame(executionStack).index + 1
                   /\ SubSeq(executionStack', 1, Len(executionStack) - 1) =
                          SubSeq(executionStack, 1, Len(executionStack) - 1)
                   /\ currentStep' \notin NodesIn(BlockOf(node, "actions"))]_vars

\* C5 witness: a while loop has been passed over after the first answer, and
\* the run is over
C5_Witness ==
    /\ Settled
    /\ Len(history) = 1
    /\ Len(executionStack) = 1
    /\ TopFrame(executionStack).index = 2
    /\ TopFrame(executionStack).nodes[2].type = "while_loop"
    /\ ~Truthy(TopFrame(executionStack).nodes[2].expression)
    /\ last = [op |-> "handleNext", result |-> "submitted", after |-> "handleInputChange",
             found |-> <<>>]
    /\ currentStep = EndStep

\* the index of a loop frame is past its last node and its expression is truthy
LoopGoesRound ==
    /\ flowDirty
    /\ Len(executionStack) > 0
    /\ Exhausted(executionStack)
    /\ TopFrame(executionStack).type = "loop_block"
    /\ Truthy(TopFrame(executionStack).expression)

\* the last node of a loop body was a user step, its submission was accepted,
\* and the loop has gone round
NextPass ==
    /\ Settled
    /\ round.phase = "submitted"
    /\ TopFrame(round.stack).type = "loop_block"
    /\ TopFrame(round.stack).index = Len(TopFrame(round.stack).nodes) - 1
    /\ executionStack = [round.stack EXCEPT ![Len(round.stack)].index = 0]

\* C6: when the index of a loop frame is past its last node and its expression
\* is truthy, the index is set to 0 with the depth of the stack unchanged and
\* the context untouched, so the replies and api_responses of the pass before
\* are in the context of the next pass.
C6_LoopReentry ==
    /\ [][LoopGoesRound =>
             /\ executionStack' = [executionStack EXCEPT ![Len(executionStack)].index = 0]
             /\ Len(executionStack') = Len(executionStack)
             /\ (~wfDirty => context' = context)]_vars
    /\ [](NextPass =>
             /\ ApiResponses(context) = ApiResponses(round.context)
             /\ \A k \in Keys(Replies(round.context)) : k \in Keys(Replies(context))
             /\ \A k \in FieldNames(round.step) \cap DOMAIN round.inputs :
                    GetProp(Replies(context), k) = round.inputs[k])

\* C6 witness: the second pass of a loop body is shown with the answer of the
\* first pass in the replies
C6_Witness ==
    /\ NextPass
    /\ currentStep = TopNode(executionStack)
    /\ GetProp(Replies(context), "n") = Num(500)
    /\ Len(history) > 0

\* a field of the shown user step that is not optional has no entry in the inputs
RequiredEntryMissing ==
    /\ IsUserStep(currentStep)
    /\ \E i \in 1..Len(currentStep.fields) :
          /\ ~(/\ "attributes" \in DOMAIN currentStep.fields[i]
               /\ "optional" \in DOMAIN currentStep.fields[i].attributes
               /\ currentStep.fields[i].attributes.optional)
          /\ currentStep.fields[i].name \notin DOMAIN currentInputs

\* C7: a submission of a user step with a required field without an entry
\* leaves the stack, the context, the history and the current step unchanged.
C7_ValidationRejects ==
    [][(handleNextUser /\ RequiredEntryMissing) => UNCHANGED core]_vars

\* C7 witness: a submission has been rejected for a missing required field
C7_Witness ==
    /\ last.op = "handleNext"
    /\ last.result = "ValidationError"
    /\ RequiredEntryMissing

\* C8: when the mock text of a suspended API submission is not JSON, the
\* stack, the context, the history and the current step are unchanged and the
\* in-flight flag is cleared.
C8_MalformedPayloadRejected ==
    [][(/\ handleNextApiResume
        /\ Head(pending).mockResponse \notin {InitialMock, DefaultMock, "{\"found\":true}"})
       => /\ UNCHANGED core
          /\ ~isSimulatingApi']_vars

\* C8 witness: a payload has been rejected on an API step
C8_Witness ==
    /\ last.op = "handleNextResume"
    /\ last.result = "InvalidPayload"
    /\ round.phase = "rejected"
    /\ round.mockResponse = "{found:"
    /\ core = <<round.stack, round.context, round.history, round.step>>
    /\ currentStep.type = "api_call"
    /\ ~isSimulatingApi

\* C9: handleBack with an empty history leaves the stack, the context, the
\* history and the current step unchanged.
C9_BackWithoutHistory ==
    [][(handleBack /\ history = <<>>) => UNCHANGED core]_vars

\* C9 witness: Back has been called without history while inputs were typed
C9_Witness ==
    /\ last = [op |-> "handleBack", result |-> "NoHistory", after |-> "handleInputChange",
             found |-> <<>>]
    /\ history = <<>>
    /\ currentInputs # <<>>

\* what a reset leaves
FreshState ==
    /\ history' = <<>>
    /\ Replies(context') = EmptyMap
    /\ ApiResponses(context') = EmptyMap
    /\ executionStack' = <<[nodes |-> workflow', index |-> 0, type |-> "root"]>>

\* C10: resetSimulation, and the effect on a new workflow, leave an empty
\* history, a context with empty replies and api_responses and a stack of one
\* root frame over the workflow at index 0; a handleBack right after a reset
\* changes nothing.
C10_ResetYieldsFreshState ==
    /\ [][resetSimulation => FreshState]_vars
    /\ [][(RunEffects /\ wfDirty) => FreshState]_vars
    /\ [][(handleBack /\ last.op = "resetSimulation") => UNCHANGED core]_vars

\* C10 witness: Back has been called right after a reset
C10_Witness ==
    /\ last = [op |-> "handleBack", result |-> "NoHistory", after |-> "resetSimulation",
             found |-> <<>>]
    /\ history = <<>>
    /\ Replies(context) = EmptyMap

\* handleNext on a user step whose required fields are filled
SubmitAccepted == handleNextUser /\ ~missingRequired(currentStep, currentInputs)

\* the replies a submission writes: the fields of the step with an entry in
\* the inputs
SubmittedKeys == FieldNames(currentStep) \cap DOMAIN currentInputs

\* the stack after the step: the index of the top frame one higher, nothing
\* else different
TopIndexUpByOne ==
    /\ Len(executionStack') = Len(executionStack)
    /\ TopFrame(executionStack').index = TopFrame(executionStack).index + 1
    /\ [TopFrame(executionStack') EXCEPT !.index = 0] =
           [TopFrame(executionStack) EXCEPT !.index = 0]
    /\ SubSeq(executionStack', 1, Len(executionStack) - 1) =
           SubSeq(executionStack, 1, Len(executionStack) - 1)

\* what an accepted submission does to the replies, the api_responses and the
\* stack
SubmitFrame ==
    /\ Keys(Replies(context')) = Keys(Replies(context)) \cup SubmittedKeys
    /\ \A k \in Keys(Replies(context')) :
          Replies(context').v[k] =
              IF k \in SubmittedKeys THEN currentInputs[k] ELSE Replies(context).v[k]
    /\ ApiResponses(context') = ApiResponses(context)
    /\ TopIndexUpByOne

\* C11 as claimed: an accepted submission of a user step changes the context
\* only at the replies keys that are fields of the step with a submitted
\* value: every other replies key and every other entry of the context keeps
\* its value, the index of the top frame goes up by one and the frames below
\* are unchanged.
C11_SubmitChangesOnlySubmittedReplies ==
    [][SubmitAccepted =>
          /\ SubmitFrame
          /\ Keys(context') = Keys(context)
          /\ \A k \in Keys(context) \ {"replies"} : context'.v[k] = context.v[k]]_vars

\* the part of C11 about the replies, the api_responses and the stack
C11_RepliesAndStack == [][SubmitAccepted => SubmitFrame]_vars

\* the suspended handleNext resumes with a mock text that is JSON
ResponseAccepted ==
    handleNextApiResume /\ ~parseFailed(JsonParse(Head(pending).mockResponse))

\* the name the suspended call stores its payload under
SubmittedName ==
    IF Head(pending).apiNameInput # "" THEN Head(pending).apiNameInput ELSE "unknown_api"

\* what an accepted API submission does to the context, the history and the
\* stack
ResponseFrame ==
    /\ Keys(ApiResponses(context')) = Keys(ApiResponses(context)) \cup {SubmittedName}
    /\ \A k \in Keys(ApiResponses(context')) :
          ApiResponses(context').v[k] =
              IF k = SubmittedName THEN JsonParse(Head(pending).mockResponse)
              ELSE ApiResponses(context).v[k]
    /\ Replies(context') = Replies(context)
    /\ Len(history') = Len(history) + 1
    /\ SubSeq(history', 1, Len(history)) = history
    /\ TopIndexUpByOne

\* C12 as claimed: an accepted API submission sets api_responses[name] to the
\* payload, leaves every other api_responses key and all replies unchanged,
\* pushes exactly one snapshot onto the history and raises the index of the
\* top frame by exactly one.
C12_ResponseStoredUnderName == [][ResponseAccepted => ResponseFrame]_vars

\* the part of C12 that holds: when nothing was done between the click and
\* the end of the delay
C12_UndisturbedResponse == [][(ResponseAccepted /\ round.phase = "called") => ResponseFrame]_vars

\* the effects run without a new workflow: processFlow's transitions only
AutoAdvance == RunEffects /\ ~wfDirty

\* the automatic transitions leave the history and the context alone
AutoAdvanceKeepsHistory == AutoAdvance => UNCHANGED <<history, context>>

\* the length of the history changes by +1 on an accepted submission, by -1
\* on a Back with history, and to 0 on a reset
HistoryAccounted ==
    Len(history') # Len(history) =>
        \/ (SubmitAccepted \/ ResponseAccepted) /\ Len(history') = Len(history) + 1
        \/ handleBack /\ Len(history) > 0 /\ Len(history') = Len(history) - 1
        \/ (resetSimulation \/ (RunEffects /\ wfDirty)) /\ Len(history') = 0

\* C13 as claimed: the automatic transitions never change the history or the
\* context, and the length of the history changes only by +1 on each accepted
\* submission, by -1 on each Back with history and to 0 on a reset, so that it
\* counts the steps taken and not undone since the last reset.
C13_HistoryAccounting == [][AutoAdvanceKeepsHistory /\ HistoryAccounted]_vars

\* the part of C13 about the automatic transitions
C13_AutoAdvanceKeepsHistory == [][AutoAdvanceKeepsHistory]_vars

\* the accounting of C13 when no suspended call ends after something else
\* was done in its delay
C13_UndisturbedAccounting ==
    [][(handleNextApiResume => round.phase = "called") => HistoryAccounted]_vars

\* the snapshots of hist that are still in the history have the stack and the
\* context they had
KeptFrom(hist) == \A i \in 1..Min(Len(hist), Len(history')) : history'[i] = hist[i]

\* C14: no snapshot changes after it was pushed: every step leaves the
\* snapshots that stay in the history as they were (a suspended handleNext
\* that resumes and stores its response puts back the snapshots it captured,
\* as they were), whatever processFlow and handleNext write to the frames of
\* the stack in place; and a snapshot that holds the object that is the
\* context has the value of the context, which is replaced and never written
\* to.
C14_SnapshotsNeverMutated ==
    /\ [][IF handleNextApiResume /\ last'.result = "stored"
          THEN KeptFrom(Head(pending).history)
          ELSE KeptFrom(history)]_vars
    /\ [][AutoAdvance => history' = history]_vars
    /\ [](/\ Len(shared) = Len(history)
          /\ \A i \in 1..Len(history) : shared[i].context => history[i].context = context)

\* C14 witness: with two snapshots in the history, processFlow has moved the
\* stack on from where the first was taken, and the second holds the context
C14_Witness ==
    /\ Settled
    /\ Len(history) = 2
    /\ history[1].stack[1].index = 0
    /\ executionStack[1].index > 1
    /\ executionStack[1].nodes = history[1].stack[1].nodes
    /\ shared[2].context
    /\ history[2].context = context

\* handleBack with a history
BackRestores == handleBack /\ Len(history) > 0

\* Back takes the last snapshot off the history and makes its stack the
\* execution stack
LastSnapshotRestored ==
    /\ history' = SubSeq(history, 1, Len(history) - 1)
    /\ executionStack' = history[Len(history)].stack

\* Back has restored a snapshot and the effects have run
BackSettled == Settled /\ round.phase \in {"undone", "restored"}

\* C15 as claimed: Back with a history removes exactly the last snapshot and
\* makes the execution stack that snapshot's stack; so each Back, and with it
\* k Backs after k accepted submissions, leaves the simulator halted on the
\* step that was current before the submission that pushed the snapshot, with
\* the history the submission found.
C15_BackRestoresLastSnapshot ==
    /\ [][BackRestores => LastSnapshotRestored]_vars
    /\ [](BackSettled => currentStep = round.step /\ history = round.history)

\* the part of C15 about the history and the stack
C15_LastSnapshotRestored == [][BackRestores => LastSnapshotRestored]_vars

\* the step of C15 on the workflows whose stack pointed at the step shown
\* when the snapshot was pushed
C15_BackToPointedStep ==
    (BackSettled /\ ~Exhausted(executionStack) /\ TopNode(executionStack) = round.step)
        => currentStep = round.step /\ history = round.history

\* the node types processFlow has a branch for
KnownTypes == {"user_interaction", "api_call", "decision", "while_loop", "do_while"}

\* the stack points at a node of a type processFlow has no branch for
AtUnknown(stack) ==
    /\ Len(stack) > 0
    /\ ~Exhausted(stack)
    /\ TopNode(stack).type \notin KnownTypes

\* C16 as claimed: once the stack points at a node of unknown type the run is
\* in an error state, in which neither a step to submit nor the end is shown,
\* and no submission moves the stack past the node.
C16_UnknownNodeIsFatal ==
    /\ []((Settled /\ AtUnknown(executionStack)) => currentStep.type \notin Interactive \cup {"end"})
    /\ [][(AtUnknown(executionStack) /\ (handleNextUser \/ handleNextApiResume))
             => executionStack' = executionStack]_vars

\* what the code does on a node of unknown type: the effects leave the stack
\* and the step shown as they are
C16_UnknownNodeLeftAlone ==
    [][(AutoAdvance /\ AtUnknown(executionStack)) => UNCHANGED <<executionStack, currentStep>>]_vars

\* the root frame is past its last node: the run is over
Completed(stack) == Len(stack) = 1 /\ Exhausted(stack)

\* the step shown is the interactive node the stack points at
ShownIsPointedAt(step, stack) ==
    /\ Len(stack) > 0
    /\ ~Exhausted(stack)
    /\ step = TopNode(stack)
    /\ step.type \in Interactive

\* processFlow halts: it sets the step and leaves the stack
Halts == AutoAdvance /\ currentStep' # currentStep /\ currentStep'.type \in Interactive

\* C17 as claimed: whenever the effects have run and the run is not over, the
\* step shown is the node at the index of the top frame and is a user
\* interaction or an API call; halting on it leaves the stack unchanged; and a
\* submission is applied only to the step the stack points at.
C17_HaltedStepIsPointedAt ==
    /\ []((Settled /\ ~Completed(executionStack)) => ShownIsPointedAt(currentStep, executionStack))
    /\ [][Halts => executionStack' = executionStack]_vars
    /\ [][SubmitAccepted => ShownIsPointedAt(currentStep, executionStack)]_vars
    /\ [][ResponseAccepted =>
             ShownIsPointedAt(Head(pending).currentStep, Head(pending).executionStack)]_vars

\* the part of C17 that holds: the same, as long as the stack points at a
\* node of a known type
C17_KnownNodeIsPointedAt ==
    /\ []((Settled /\ ~Completed(executionStack) /\ ~AtUnknown(executionStack))
             => ShownIsPointedAt(currentStep, executionStack))
    /\ [][Halts => executionStack' = executionStack]_vars
    /\ [][(SubmitAccepted /\ ~AtUnknown(executionStack))
             => ShownIsPointedAt(currentStep, executionStack)]_vars
    /\ [][(ResponseAccepted /\ ~AtUnknown(Head(pending).executionStack))
             => ShownIsPointedAt(Head(pending).currentStep, Head(pending).executionStack)]_vars

\* frame i of the stack is a loop frame that cannot be left: its expression
\* is truthy in the context and no node of its body halts
Endless(i) ==
    /\ executionStack[i].type = "loop_block"
    /\ Truthy(executionStack[i].expression)
    /\ \A node \in NodesIn(executionStack[i].nodes) : node.type \notin Interactive

\* the run is inside such a loop
Spinning == \E i \in 1..Len(executionStack) : Endless(i)

\* the step keeps the run inside such a loop: the frame stays on the stack
\* and the context, in which its expression is truthy, stays what it is
KeepsSpinning ==
    /\ \E i \in 1..Len(executionStack) :
          /\ Endless(i)
          /\ i <= Len(executionStack')
          /\ [executionStack'[i] EXCEPT !.index = 0] = [executionStack[i] EXCEPT !.index = 0]
    /\ context' = context
    /\ currentStep' = currentStep

\* C18: there is no cap on the passes of a loop: once the run is inside a
\* loop frame whose expression is truthy and whose body (empty or not) holds
\* no interactive node, an automatic transition is always due, every step
\* leaves the run inside the loop with the step shown unchanged, and the step
\* shown is neither the node the stack points at nor the end of the run.
C18_LoopWithoutCap ==
    /\ [](Spinning => flowDirty /\ currentStep # EndStep
                      /\ ~ShownIsPointedAt(currentStep, executionStack))
    /\ [][Spinning => KeepsSpinning]_vars

\* C18 witness: the do-while loop around a decision without blocks is in a
\* later pass, past the decision
C18_Witness ==
    /\ Spinning
    /\ Len(executionStack) = 2
    /\ TopFrame(executionStack).nodes = WfSpin[2].actions
    /\ TopFrame(executionStack).index = 1
    /\ Len(history) = 1
    /\ currentStep = WfSpin[1]

\* the values of JavaScript that the evaluator handles
IsValue(x) ==
    x.t \in {"null", "undef", "nan", "bool", "num", "str", "list", "map", "date", "native"}

\* the call has returned
Returned == evaluation.state = "returned"

\* the expression is a text, and a step of its evaluation has raised an error
\* that no inner call of evaluateExpression has caught
RaisedInside ==
    /\ evaluation.expression.t = "str"
    /\ evaluation.expression.v # ""
    /\ evalLogical(Unwrapped(evaluation.expression.v), evaluation.context) = Thrown

\* C19: evaluateExpression never raises to its caller: for every expression
\* text, well-formed or not, and every context it returns a value, and an
\* error raised inside the evaluator makes the call return null
C19_NeverRaises ==
    Returned /\ evaluation.expression.t = "str"
        => /\ IsValue(evaluation.result)
           /\ RaisedInside => evaluation.result = Null

\* a call has returned whose evaluation raised an error inside
C19_Witness == Returned /\ RaisedInside

\* C20: for every argument that is no string (a boolean, a number, null, a
\* list or a map) evaluateExpression returns that same value
C20_NonStringsPassThrough ==
    Returned /\ evaluation.expression.t \in {"bool", "num", "nan", "null", "list", "map"}
        => evaluation.result = evaluation.expression

\* the part of C20 that holds: a truthy argument that is no string comes back
\* unchanged, and a falsy one (false, 0, NaN, null) comes back as null
C20_TruthyNonStringsPassThrough ==
    Returned /\ evaluation.expression.t # "str"
        => evaluation.result = (IF ToBool(evaluation.expression) THEN evaluation.expression ELSE Null)

\* the value of an operand text in the context of the call, before the catch
PartValue(i) == evalLogical(evaluation.parts[i], evaluation.context)

\* x || y and x && y with both operands evaluated first
OrOf(x, y) == IF x = Thrown \/ y = Thrown THEN Thrown ELSE JsOr(x, y)

AndOf(x, y) == IF x = Thrown \/ y = Thrown THEN Thrown ELSE JsAnd(x, y)

\* what the caller gets of a value or an error
Delivered(x) == IF x = Thrown THEN Null ELSE x

\* C21: || binds loosest, then &&, then == and !=, then the relational
\* operators: a || b && c is a || (b && c), and x > y && p == q is
\* (x > y) && (p == q); a chain of || or of && is folded from the left over
\* all its operands, each of them evaluated (an error in an operand after a
\* truthy one is not skipped); 100 > 50 && 'a' == 'a' is true and
\* 100 < 50 || false is false
C21_PrecedenceAndFold ==
    Returned =>
        /\ evaluation.form = "a || b && c"
              => evaluation.result = Delivered(OrOf(PartValue(1), AndOf(PartValue(2), PartValue(3))))
        /\ evaluation.form = "a || b || c"
              => evaluation.result = Delivered(OrOf(OrOf(PartValue(1), PartValue(2)), PartValue(3)))
        /\ evaluation.form = "a && b && c"
              => evaluation.result = Delivered(AndOf(AndOf(PartValue(1), PartValue(2)), PartValue(3)))
        /\ evaluation.form = "x > y && p == q"
              => evaluation.result = Delivered(AndOf(PartValue(1), PartValue(2)))
        /\ evaluation.expression = Str("100 > 50 && 'a' == 'a'") => evaluation.result = Bool(TRUE)
        /\ evaluation.expression = Str("100 < 50 || false") => evaluation.result = Bool(FALSE)

\* true || false && false has returned true, and true || (an operand that
\* raises) || false has returned null
C21_Witness ==
    /\ Returned
    /\ \/ /\ evaluation.expression = Str("true || false && false")
          /\ evaluation.result = Bool(TRUE)
       \/ /\ evaluation.expression = Str("true || api_responses.bad > 1 || false")
          /\ PartValue(2) = Thrown
          /\ evaluation.result = Null

\* C22: c ?then(a, b) yields the value of a when c evaluates truthy and the
\* value of b otherwise, and the argument that is not taken is not evaluated:
\* an error that its evaluation would raise does not show.  (An error raised
\* by c itself ends the call with null, as every error does.)
C22_ThenIsLazy ==
    Returned /\ evaluation.form = "c ?then(a, b)"
        => evaluation.result = (IF PartValue(1) = Thrown THEN Null
                                ELSE IF ToBool(PartValue(1)) THEN Delivered(PartValue(2))
                                ELSE Delivered(PartValue(3)))

\* a call has returned the value of the first argument while the second one
\* would have raised, and a call the value of the second argument while the
\* first one would have raised
C22_Witness ==
    /\ Returned
    /\ evaluation.form = "c ?then(a, b)"
    /\ PartValue(1) # Thrown
    /\ evaluation.result \in {Str("Adult"), Str("John")}
    /\ \/ ToBool(PartValue(1)) /\ PartValue(3) = Thrown
       \/ ~ToBool(PartValue(1)) /\ PartValue(2) = Thrown

\* C23: an argument of ?then may itself be a ?then expression:
\* c1 ?then(c2 ?then(a, b), d) is a or b by c2 when c1 is truthy and d
\* otherwise, and c1 ?then(a, c2 ?then(b, d)) is a when c1 is truthy and b or
\* d by c2 otherwise, for every truth assignment of c1 and c2
C23_ThenNests ==
    Returned =>
        /\ evaluation.form = "c1 ?then(c2 ?then(a, b), d)"
              => evaluation.result = (IF ~ToBool(PartValue(1)) THEN PartValue(5)
                                      ELSE IF ToBool(PartValue(2)) THEN PartValue(3)
                                      ELSE PartValue(4))
        /\ evaluation.form = "c1 ?then(a, c2 ?then(b, d))"
              => evaluation.result = (IF ToBool(PartValue(1)) THEN PartValue(3)
                                      ELSE IF ToBool(PartValue(2)) THEN PartValue(4)
                                      ELSE PartValue(5))

\* what the evaluator makes of the two texts: the last "?then(" of the text
\* is taken, its arguments are cut at the first comma after it, and the text
\* before it has the value of c1; c2 is never looked at, and the second
\* argument is the rest of the text: 'B'), 'D' is a string literal and 'D')
\* a variable that does not resolve
C23_LastThenIsTaken ==
    Returned =>
        /\ evaluation.form = "c1 ?then(c2 ?then(a, b), d)"
              => evaluation.result = (IF ToBool(PartValue(1)) THEN PartValue(3) ELSE Str("B'), 'D"))
        /\ evaluation.form = "c1 ?then(a, c2 ?then(b, d))"
              => evaluation.result = (IF ToBool(PartValue(1)) THEN PartValue(4) ELSE Undef)

\* the string form of an operand of +, the empty string for null and for a
\* variable that is missing
StringForm(x) == IF IsNullish(x) THEN "" ELSE ToStr(x)

\* an operand has no string form: its evaluation or its conversion raises
Unprintables(n) == \E i \in 1..n : PartValue(i) = Thrown \/ Raises(PartValue(i))

\* the string forms of the operands of the call, one after the other
Concatenation ==
    IF evaluation.form = "a + b"
    THEN Str(StringForm(PartValue(1)) \o StringForm(PartValue(2)))
    ELSE Str(StringForm(PartValue(1)) \o StringForm(PartValue(2)) \o StringForm(PartValue(3)))

\* C24: an expression with a top-level + yields the concatenation, from left
\* to right, of the string forms of its operands, a null or missing operand as
\* the empty string, and never a sum: 1 + 2 is "12"
C24_PlusConcatenates ==
    Returned /\ evaluation.form \in {"a + b", "a + b + c"}
        => evaluation.result = (IF Unprintables(Len(evaluation.parts)) THEN Null ELSE Concatenation)

\* the text starts with ( and ends with )
Enclosed(text) == StartsWith(text, "(") /\ EndsWith(text, ")")

\* the part of C24 that holds: the concatenation, unless the first operand
\* starts with ( and the last one ends with ): then the text is taken for one
\* expression in parentheses and what is between the first and the last
\* character is evaluated, which does not split at the +
C24_PlusConcatenatesUnlessEnclosed ==
    Returned /\ evaluation.form \in {"a + b", "a + b + c"}
        => evaluation.result =
              (IF Enclosed(evaluation.expression.v)
               THEN Delivered(evalLogical(Substring(evaluation.expression.v, 1,
                                                    Len(evaluation.expression.v) - 1),
                                          evaluation.context))
               ELSE IF Unprintables(Len(evaluation.parts)) THEN Null
               ELSE Concatenation)

\* 1 + 2 has returned "12"
C24_Digits == Returned /\ evaluation.expression = Str("1 + 2") => evaluation.result = Str("12")

\* the value that the data of the context holds at a path: the members that
\* the maps, lists and strings on the way have of their own
OwnMember(current, part) ==
    IF GetProp(current, part).t = "native" THEN Undef ELSE GetProp(current, part)

RECURSIVE HeldAt(_, _)
HeldAt(parts, current) ==
    IF Len(parts) = 0 THEN current
    ELSE IF IsNullish(current) THEN Null
    ELSE IF current.t = "list" /\ ~IsNaNStr(parts[1])
         THEN HeldAt(Tail(parts), GetIndex(current, parts[1]))
         ELSE HeldAt(Tail(parts), OwnMember(current, parts[1]))

\* the path of the call is absent from the context
Absent == IsNullish(HeldAt(StrSplit(evaluation.parts[1], "."), evaluation.context))

\* C25: p?? is true if and only if the path p resolves to a value that is
\* neither null nor missing; it is false when p is absent from the context
C25_ExistenceTest ==
    Returned /\ evaluation.form = "p??"
        => /\ evaluation.result
                = Bool(~IsNullish(resolveVariable(evaluation.parts[1], evaluation.context)))
           /\ Absent => evaluation.result = Bool(FALSE)

\* the part of C25 that holds: p?? tells whether the resolution of p, which
\* finds the built-in members that objects inherit as well, is neither null
\* nor undefined
C25_ExistenceOfResolution ==
    Returned /\ evaluation.form = "p??"
        => evaluation.result
              = Bool(~IsNullish(resolveVariable(evaluation.parts[1], evaluation.context)))

\* the list of the body's values, the variable bound to each element in turn
\* on top of the context of the call
Mapped(list) ==
    List([i \in 1..Len(list.v) |->
            evaluateExpression(Str(evaluation.parts[3]),
                               Put(evaluation.context, evaluation.parts[2], list.v[i]))])

\* C26: l?map(x -> body) over a list l yields a list as long as l whose i-th
\* element is the value of body with x bound to the i-th element of l on top
\* of the context, in the order of l; body may be any expression
C26_MapOverList ==
    Returned /\ evaluation.form = "l?map(x -> body)" /\ PartValue(1).t = "list"
        => evaluation.result = Mapped(PartValue(1))

\* the part of C26 that holds: the same for a body that holds neither a
\* ?then nor a ?map of its own
C26_MapOverListPlainBody ==
    Returned /\ evaluation.form = "l?map(x -> body)" /\ PartValue(1).t = "list"
        => \/ Includes(evaluation.parts[3], "?then(")
           \/ Includes(evaluation.parts[3], "->")
           \/ evaluation.result = Mapped(PartValue(1))

\* C27: v?string yields the string form of v for every value v, and the
\* empty string only when v is null or missing
C27_StringForm ==
    Returned /\ evaluation.form = "v?string"
        => evaluation.result = (IF Raises(PartValue(1)) THEN Null
                                ELSE Str(StringForm(PartValue(1))))

\* the part of C27 that holds: v?string is the string form of a truthy v, and
\* the empty string for every falsy v: null and missing, and also false, 0
\* and NaN
C27_StringFormOfTruthy ==
    Returned /\ evaluation.form = "v?string"
        => evaluation.result = (IF ~ToBool(PartValue(1)) THEN Str("")
                                ELSE IF Raises(PartValue(1)) THEN Null
                                ELSE Str(ToStr(PartValue(1))))

\* the separator of the call, without its quotes
Separator == Substring(evaluation.parts[2], 1, Len(evaluation.parts[2]) - 1)

\* the call is l?join(sep)?split(sep) on a list of strings none of which
\* contains the separator
RoundTrip ==
    /\ Returned
    /\ evaluation.form = "l?join(sep)?split(sep)"
    /\ PartValue(1).t = "list"
    /\ \A i \in 1..Len(PartValue(1).v) :
          /\ PartValue(1).v[i].t = "str"
          /\ ~Includes(PartValue(1).v[i].v, Separator)

\* C28 as the specification states it: for every list l of strings none of
\* which contains the separator, l?join(sep)?split(sep) is a list equal to l
C28_JoinSplitRoundTrip == RoundTrip => evaluation.result = PartValue(1)

\* C28: for every list l of strings that is not empty, none of which contains
\* the separator, the separator being one character, l?join(sep)?split(sep)
\* is a list equal to l: as long, with the same elements in the same order
C28_JoinSplitRoundTripOfNonEmpty ==
    RoundTrip /\ PartValue(1).v # <<>> /\ Len(Separator) = 1
        => evaluation.result = PartValue(1)

\* the round trip of a list with an empty string between two others has
\* returned the list
C28_Witness ==
    /\ RoundTrip
    /\ Len(Separator) = 1
    /\ Len(PartValue(1).v) = 3
    /\ evaluation.result = PartValue(1)

\* C29: for every value that a literal can stand for (a number, a quoted
\* string, true, false, null) the evaluation of its literal text yields the
\* value, in any context
C29_LiteralRoundTrip ==
    Returned =>
        /\ evaluation.form = "literal" => evaluation.result = evaluation.value
        /\ evaluation.form = "large number" => evaluation.result.t = "num"

\* the part of C29 that holds: the literals of the integers written in
\* digits, of the quoted strings without their own quote inside, and true,
\* false and null
C29_PlainLiteralRoundTrip ==
    Returned /\ evaluation.form = "literal" => evaluation.result = evaluation.value

\* the text 1e+21 splits at its + and yields the string "21"
C29_ExponentIsConcatenated ==
    Returned /\ evaluation.form = "large number" => evaluation.result = Str("21")

\* the index in s, from i on, of the brace that closes the depth-th open
\* one, -1 without it
RECURSIVE ClosingBrace(_, _, _)
ClosingBrace(s, i, depth) ==
    IF i >= Len(s) THEN 0 - 1
    ELSE IF CharAt(s, i) = "{" THEN ClosingBrace(s, i + 1, depth + 1)
    ELSE IF CharAt(s, i) = "}"
         THEN IF depth = 1 THEN i ELSE ClosingBrace(s, i + 1, depth - 1)
    ELSE ClosingBrace(s, i + 1, depth)

\* text is one placeholder ${...} and nothing else
OnePlaceholder(text) ==
    /\ StartsWith(Trim(text), "${")
    /\ ClosingBrace(Trim(text), 2, 1) = Len(Trim(text)) - 1

\* the call is on ${E}
OnWrapper == Returned /\ evaluation.form \in {"${e}", " ${e} "}

\* C30: for every expression E and context the whole string ${E} evaluates
\* to the value, of the same type, that E evaluates to; and a string that is
\* not exactly one placeholder is evaluated with nothing removed
C30_WrapperEquivalence ==
    /\ OnWrapper =>
           evaluation.result = evaluateExpression(Str(evaluation.parts[1]), evaluation.context)
    /\ Returned /\ evaluation.form = "mixed" /\ ~OnePlaceholder(evaluation.expression.v) =>
           evaluation.result = Delivered(evalLogical(Trim(evaluation.expression.v),
                                                     evaluation.context))

\* the part of C30 that holds: ${E} evaluates to what E evaluates to when E
\* is not empty and not itself a text in the wrapper
C30_WrapperOfExpression ==
    OnWrapper /\ evaluation.parts[1] # "" /\ Unwrapped(evaluation.parts[1]) = Trim(evaluation.parts[1]) =>
        evaluation.result = evaluateExpression(Str(evaluation.parts[1]), evaluation.context)

\* a string that begins with ${ and ends with } loses both ends, one
\* placeholder or not: the two placeholders around an operator are read as
\* one path, which resolves to null
C30_EndsAreCutOff ==
    Returned /\ evaluation.form = "mixed"
             /\ StartsWith(evaluation.expression.v, "${") /\ EndsWith(evaluation.expression.v, "}") =>
        /\ ~OnePlaceholder(evaluation.expression.v)
        /\ evaluation.result = Null

\* ${} evaluates to undefined and the empty string to null; the wrapper
\* around a text in the wrapper is removed once, and what is left is read
\* as a path, which resolves to null
C30_EmptyAndDoubleWrapper ==
    /\ OnWrapper /\ evaluation.parts[1] = "" =>
           /\ evaluation.result = Undef
           /\ evaluateExpression(Str(""), evaluation.context) = Null
    /\ OnWrapper /\ evaluation.parts[1] = "${replies.age}" =>
           evaluation.result = Null

\* what the context holds at the path of the call
Held == HeldAt(StrSplit(evaluation.parts[1], "."), evaluation.context)

\* the path of the call names a member that objects inherit
NamesInherited ==
    \E i \in 1..Len(StrSplit(evaluation.parts[1], ".")) :
        StrSplit(evaluation.parts[1], ".")[i] \in ObjectMembers

\* C31: a path is walked part by part from the context, by index through a
\* list and by key through a map; the result is what the context holds
\* there, it is null (or undefined) as soon as a step finds null or nothing,
\* and no path raises an error
C31_VariableResolution ==
    Returned /\ evaluation.form = "path" =>
        /\ resolveVariable(evaluation.parts[1], evaluation.context) # Thrown
        /\ IF IsNullish(Held) THEN IsNullish(evaluation.result)
                              ELSE evaluation.result = Held

\* the part of C31 that holds: a path without the name of an inherited
\* member resolves to what the context holds there; no path raises
C31_ResolutionOfOwnMembers ==
    Returned /\ evaluation.form = "path" =>
        /\ resolveVariable(evaluation.parts[1], evaluation.context) # Thrown
        /\ ~NamesInherited =>
               IF IsNullish(Held) THEN IsNullish(evaluation.result)
                                  ELSE evaluation.result = Held

\* a step that finds nothing before the last part yields null, one that
\* finds nothing at the last part yields undefined
C31_MissingLastPartIsUndefined ==
    Returned /\ evaluation.form = "path" =>
        /\ evaluation.parts[1] \in {"missing.name", "missing.a.b.c", "replies.age.x.y"} =>
               evaluation.result = Null
        /\ evaluation.parts[1] \in {"missing", "replies.missing", "now.x"} =>
               evaluation.result = Undef

\* the call is on a list mapped twice, the second time to the variable of
\* the first
MappedTwice ==
    /\ Returned
    /\ evaluation.form = "l?map(x -> body)?map(y -> x)"
    /\ PartValue(1).t = "list"

FieldExpressions ==
    UNION {{AttributeOf(f, key).v :
                key \in {k \in {"options", "label_expression"} : AttributeOf(f, k).t = "str"}} :
           f \in UNION {{n.fields[i] : i \in 1..Len(n.fields)} :
                           n \in {m \in NodesIn(workflow) : Has(m, "fields")}}}

\* the strings among them that contain api_responses.<name>
Referencing(name) == {e \in FieldExpressions : Includes(e, "api_responses." \o name)}

CompletesAfterReset ==
    /\ handleNextApiResume
    /\ last.op \in {"resetSimulation", "newWorkflow"}

\* C34: a reset during the delay of an API submission is not overridden when
\* the submission completes: the history is still empty, api_responses is
\* still empty and the execution stack still stands on the root frame over
\* the workflow of the reset, as the reset and the automatic transitions
\* have left it
C34_ResetIsNotOverridden ==
    [][CompletesAfterReset =>
          /\ history' = <<>>
          /\ ApiResponses(context') = ApiResponses(EmptyContext)
          /\ executionStack' = executionStack
          /\ executionStack'[1].type = "root"
          /\ executionStack'[1].nodes = workflow]_vars

\* the part of C34 that holds: a completion that rejects its payload writes
\* nothing, and one that stores it writes the stack, the context and the
\* history of the click onto those of the reset: the history is the one of
\* the click with one more snapshot
C34_CompletionWritesTheClick ==
    [][CompletesAfterReset =>
          IF last'.result = "InvalidPayload"
          THEN UNCHANGED <<executionStack, context, history>>
          ELSE /\ Len(history') = Len(Head(pending).history) + 1
               /\ Head(pending).apiNameInput # "" =>
                      Head(pending).apiNameInput \in DOMAIN ApiResponses(context').v]_vars

\* a submit or a goBack takes effect: the stack, the context or the history
\* is written, or one more submission is suspended
TakesEffect ==
    /\ handleNextUser \/ handleNextApi \/ handleBack
    /\ \/ executionStack' # executionStack
       \/ context' # context
       \/ history' # history
       \/ pending' # pending

\* C35: from the start of an API submission to its completion or rejection
\* the in-flight flag is set and no second submit and no goBack takes effect
C35_SubmissionsSerialized ==
    /\ [](pending # <<>> => isSimulatingApi)
    /\ [][pending # <<>> => ~TakesEffect]_vars

\* the part of C35 that holds: while the in-flight flag is set no submit and
\* no goBack takes effect, and a completion or a rejection clears the flag
C35_FlagHoldsBack ==
    /\ [][isSimulatingApi => ~TakesEffect]_vars
    /\ [][handleNextApiResume => ~isSimulatingApi']_vars
    /\ [][handleNextApi => isSimulatingApi' /\ Len(pending') = Len(pending) + 1]_vars

\* when the effects run and the timers fire, the flag is cleared in the end
\* whenever it is set, and the oldest suspended submission is completed or
\* rejected again and again as long as one is suspended
C35_FlagIsCleared ==
    EffectsRun /\ TimersFire =>
        /\ isSimulatingApi ~> ~isSimulatingApi
        /\ []<>(pending = <<>>) \/ []<><<handleNextApiResume>>_vars

\* the flag is cleared by a reset while the submission is still suspended
C35_ResetClearsFlag ==
    [][(resetSimulation /\ pending # <<>>) => ~isSimulatingApi' /\ pending' = pending]_vars

\* the frame above stands on a block of the node that the frame below
\* points at: a branch of a Decision, or the actions of a loop
StandsOn(below, above) ==
    /\ below.index < Len(below.nodes)
    /\ \/ /\ below.nodes[below.index + 1].type = "decision"
          /\ above.type = "decision_block"
          /\ above.nodes \in {BlockOf(below.nodes[below.index + 1], "if_block"),
                              BlockOf(below.nodes[below.index + 1], "else_block")}
       \/ /\ below.nodes[below.index + 1].type \in {"while_loop", "do_while"}
          /\ above.type = "loop_block"
          /\ above.nodes = BlockOf(below.nodes[below.index + 1], "actions")

\* the shape of a stack over the node list nodes
Shaped(stack, nodes) ==
    /\ Len(stack) >= 1
    /\ stack[1].type = "root"
    /\ stack[1].nodes = nodes
    /\ \A i \in 2..Len(stack) : stack[i].type \in {"decision_block", "loop_block"}
    /\ \A i \in 1..Len(stack) : stack[i].index \in 0..Len(stack[i].nodes)
    /\ \A i \in 1..(Len(stack) - 1) : StandsOn(stack[i], stack[i + 1])

\* the effect on the workflow has run: the simulator is initialized for the
\* workflow it has
Initialized == ~wfDirty

\* C36: in every state after initialization the execution stack is not
\* empty, its bottom frame is the only root frame and spans the workflow,
\* the frames above are decision or loop blocks, every index lies within
\* 0..length of its node list, and every frame but the top one points at the
\* Decision or loop whose block the frame above stands on
C36_StackShape == Initialized => Shaped(executionStack, workflow)

\* the part of C36 that holds: the stack has this shape over the workflow
\* it was built for, which is the workflow of the simulator or, after a
\* submission that was suspended before a new workflow arrived has
\* completed, the workflow before
C36_StackShapeOverItsWorkflow ==
    Initialized =>
        /\ Len(executionStack) >= 1
        /\ executionStack[1].nodes \in Workflows \cup {WfOptions}
        /\ Shaped(executionStack, executionStack[1].nodes)

\* the stack stands over another workflow only after such a completion
C36_OtherWorkflowOnlyAfterCompletion ==
    [][(Initialized /\ Initialized' /\ executionStack[1].nodes = workflow
           /\ executionStack'[1].nodes # workflow')
       => handleNextApiResume]_vars

\* the flow effect is due on a stack whose top frame's index is past its last node
FrameExhausted ==
    /\ flowDirty
    /\ Len(executionStack) > 0
    /\ Exhausted(executionStack)

\* the exhausted frame is a decision block, or a loop block whose expression is falsy
BlockIsLeft ==
    /\ FrameExhausted
    /\ Len(executionStack) > 1
    /\ \/ TopFrame(executionStack).type = "decision_block"
       \/ /\ TopFrame(executionStack).type = "loop_block"
          /\ ~ToBool(evaluateExpression(TopFrame(executionStack).expression, context))

\* the exhausted frame is the root
RootIsLeft ==
    /\ FrameExhausted
    /\ Len(executionStack) = 1
    /\ TopFrame(executionStack).type = "root"

\* the top frame is gone, the frame below it has its index raised by one and
\* is otherwise the same, and the frames under that are the same
PoppedAndAdvanced ==
    /\ Len(executionStack') = Len(executionStack) - 1
    /\ executionStack'[Len(executionStack')].index
           = executionStack[Len(executionStack')].index + 1
    /\ [executionStack'[Len(executionStack')] EXCEPT !.index = 0]
           = [executionStack[Len(executionStack')] EXCEPT !.index = 0]
    /\ \A i \in 1..(Len(executionStack') - 1) : executionStack'[i] = executionStack[i]

\* C37: when the flow effect runs on a stack whose top frame is exhausted and
\* that frame is a decision block, or a loop block whose expression is falsy,
\* the frame is popped and the index of the frame below is raised by exactly
\* one, the rest of the stack, the context and the step shown being left
\* alone; when the exhausted frame is the root, the stack is left alone and
\* the step shown becomes the end of the run.
C37_FrameExhaustion ==
    /\ [][RunEffects /\ BlockIsLeft =>
             /\ PoppedAndAdvanced
             /\ context' = context
             /\ currentStep' = currentStep]_vars
    /\ [][RunEffects /\ RootIsLeft =>
             /\ executionStack' = executionStack
             /\ currentStep' = EndStep
             /\ ~flowDirty']_vars

\* C37 witness: the run of the scenario is over: after the API call in the
\* if_block was answered the decision block was exhausted and popped, the root
\* frame moved from the decision to its end, and the end of the run is shown
C37_Witness ==
    /\ Settled
    /\ workflow = WfScenario
    /\ currentStep = EndStep
    /\ executionStack = <<[RootFrame(WfScenario) EXCEPT !.index = 2]>>
    /\ Len(history) = 2

\* C37: a frame that is exhausted is never left any other way: every step that
\* shortens the stack by the flow effect pops exactly one exhausted frame
C37_OnlyExhaustedFramesArePopped ==
    [][RunEffects /\ ~wfDirty /\ Len(executionStack') < Len(executionStack) =>
          /\ FrameExhausted
          /\ Len(executionStack) > 1
          /\ PoppedAndAdvanced]_vars

\* no node of the block, at any depth, is a loop
LoopFree(block) == \A n \in NodesIn(block) : n.type \notin {"while_loop", "do_while"}

\* every node of the block, at any depth, is of a type the simulator knows
KnownNodes(block) == \A n \in NodesIn(block) : n.type \in KnownTypes

\* the indexes of the frames, from the root to the top
Path(stack) == [i \in 1..Len(stack) |-> stack[i].index]

\* a is before b in the order of a walk through the tree of nodes
Before(a, b) ==
    \/ /\ Len(a) < Len(b)
       /\ \A i \in 1..Len(a) : a[i] = b[i]
    \/ \E k \in 1..Min(Len(a), Len(b)) :
           /\ a[k] < b[k]
           /\ \A i \in 1..(k - 1) : a[i] = b[i]

\* no automatic transition is due and the run is halted on an interactive
\* node or is completed
HaltedOrCompleted ==
    \/ ShownIsPointedAt(currentStep, executionStack)
    \/ currentStep = EndStep

\* C38: on a workflow without loops, every automatic transition that moves
\* the stack moves it forward in the walk through the finite tree of nodes, so
\* that there are finitely many of them in a row, and when none is due any
\* more the run is halted on an interactive node or is completed.
C38_AutoAdvanceTerminates ==
    /\ []((Initialized /\ Len(workflow) > 0 /\ LoopFree(workflow) /\ ~EffectsDue)
             => HaltedOrCompleted)
    /\ [][(AutoAdvance /\ LoopFree(workflow) /\ executionStack' # executionStack)
             => Before(Path(executionStack), Path(executionStack'))]_vars

\* C38 for the workflows whose nodes are all of a known type
C38_TerminatesOnKnownNodes ==
    /\ []((Initialized /\ Len(workflow) > 0 /\ LoopFree(workflow) /\ KnownNodes(workflow)
               /\ ~EffectsDue)
             => HaltedOrCompleted)
    /\ [][(AutoAdvance /\ LoopFree(executionStack[1].nodes)
               /\ executionStack' # executionStack)
             => Before(Path(executionStack), Path(executionStack'))]_vars

\* C38: if the effects that are due keep being run, a run over a workflow
\* without loops and with nodes of known types comes to a state where no
\* automatic transition is due
C38_ComesToRest ==
    EffectsRun =>
        ((Initialized /\ LoopFree(workflow) /\ KnownNodes(workflow)) ~> ~EffectsDue)

\* C38: on the loop-free workflow with a node of an unknown type the
\* automatic transitions end at that node with the step shown before, the one
\* submitted or the one gone back from, still shown
C38_StopsAtUnknownNode ==
    (Settled /\ workflow = WfUnknown /\ AtUnknown(executionStack))
        => /\ currentStep \in {WfUnknown[1], WfUnknown[3]}
           /\ ~HaltedOrCompleted

\* the root frame is exhausted and the end of the run is shown
RunCompleted ==
    /\ ~wfDirty
    /\ currentStep = EndStep
    /\ Len(executionStack) = 1
    /\ TopFrame(executionStack).type = "root"
    /\ Exhausted(executionStack)

\* a step that is neither a reset, by the button or for a new workflow, nor
\* a step back
NeitherResetNorBack == ~resetSimulation /\ ~handleBack /\ ~(\E w \in LaterWorkflows : newWorkflow(w))

\* C39: once the root frame is exhausted and the end of the run is shown, the
\* flow effect is not due, and no step other than a reset or a step back
\* changes the execution stack, the context or the history; a submission in
\* particular changes none of them.
C39_CompletedIsStable ==
    /\ [](RunCompleted => ~flowDirty)
    /\ [][(RunCompleted /\ NeitherResetNorBack)
             => UNCHANGED <<executionStack, context, history>>]_vars

\* C39: at the end of the run the buttons Next and Back are not rendered: no
\* submission starts and no step back is taken there, the effects change
\* nothing of the run, and the only steps that change the stack, the context
\* or the history are the Restart button and the completion of a submission
\* that was started before
C39_OnlyRestartAndOldCompletions ==
    /\ [][RunCompleted => ~(handleNextUser \/ handleNextApi \/ handleBack)]_vars
    /\ [][(RunCompleted /\ RunEffects)
             => UNCHANGED <<executionStack, context, history, currentStep>>]_vars
    /\ [][(RunCompleted /\ ~UNCHANGED <<executionStack, context, history>>)
             => resetSimulation \/ handleNextApiResume]_vars

\* C39: when no submission is pending, the completed run stays as it is
\* until the Restart button or a new workflow
C39_StableWithoutPendingCalls ==
    [][(RunCompleted /\ pending = <<>> /\ ~resetSimulation)
          => UNCHANGED <<executionStack, context, history>>]_vars

====
